---- MODULE Spec2Model ----
(***************************************************************************)
(* Model of the Daily-News-Agent scraping pipeline: the feed fetcher with  *)
(* retry/backoff, the date filter, the per-source headline collection and  *)
(* persistence, the "skip if already scraped today" guard of               *)
(* news_list_tool, and the universal single-URL article crawler.           *)
(*                                                                         *)
(* Strings are sequences of tokens (single characters for dates, words    *)
(* for titles and messages), so that prefix tests and trimming are         *)
(* computed, not assumed.  A date is the day-of-month number; year and     *)
(* month are fixed.  A URL is the sequence of its path segments (the       *)
(* scheme and host are fixed per source).                                  *)
(***************************************************************************)
EXTENDS Integers, Sequences, FiniteSets, TLC

VARIABLES
    \* ---- fetch_googlenews_entries (daily_star_scraper.py) ----
    f_pc,        \* "idle" | "loop" | "done" | "raised"
    f_retries,   \* the retries argument
    f_backoff,   \* the backoff argument, in half seconds
    f_prefix,    \* the date_prefix argument
    f_attempt,   \* loop variable attempt
    f_outcomes,  \* outcome of every session.get issued, in order
    f_sleeps,    \* argument of every time.sleep issued, in order (half seconds)
    f_xml,       \* the feed text received (a sequence of <url> blocks), or None
    f_result,    \* the returned entry list, or None before the return
    \* ---- parse_news_sitemap (jugantor_scraper.py) ----
    j_xml,       \* the xml_text argument (a sequence of <url> blocks), or None
    j_date,      \* the date_str argument
    j_items,     \* the returned item list, or None before the first call
    \* ---- article_crawler (core/universal_article_crawler.py) ----
    c_pc,        \* "idle" | "done" | "raised"
    c_url,       \* the url argument: None, Some("") or Some(url)
    c_flags,     \* the markdown and raw arguments
    c_requests,  \* number of requests.get calls issued
    c_outcome,   \* "none" | "ok" | the exception fetch or parse raised
    c_out,       \* the returned string, or None
    \* ---- the news folder, the clock and the scraper entry points ----
    today,       \* datetime.now(): the calendar day
    clock,       \* datetime.now(): the time of day, in ticks
    news,        \* news/<source>_headlines_<day>.txt: None or Some(file)
    last,        \* the latest run of a scraper's main(): what it collected and did
    runs,        \* number of command-line runs so far
    \* ---- news_list_tool (agent.py) ----
    t_pc,        \* "idle" | "scrape" | "load" | "loaded" | "done" | "raised"
    t_calls,     \* number of calls of news_list_tool so far
    t_idx,       \* position in run_all_scrapers: index of the next scraper
    t_seen,      \* the sources whose file for today existed at the check
    t_ran,       \* the scrapers whose main() this call has run, in order
    t_requests,  \* scraping requests issued by this call
    t_loaded,    \* the files load_news_articles read, or None
    \* ---- body extraction, category inference, feed download (one call) ----
    x_fn,        \* "none" | the function applied
    x_page,      \* the input it was applied to (a page, a URL, a feed), or None
    x_body,      \* what it returned, or None
    \* ---- scrape_daily_star / scrape_jugantor (full-article scraping) ----
    s_pc,        \* "idle" | "loop" | "done" | "raised"
    s_src,       \* "none" | "dailystar" | "jugantor"
    s_entries,   \* the feed entries of the day, truncated to max_articles
    s_pages,     \* what the article page of each entry will turn out to be
    s_i,         \* index of the entry the loop is at
    s_events,    \* the article requests and time.sleep calls issued, in order
    s_result,    \* the list of articles built so far (returned at the end)
    s_call,      \* the date-matching entries of the feed and max_articles
    \* ---- the four adapters run as concurrent processes ----
    p_pc,        \* per source: "idle" | "collected" | "done"
    p_run        \* per source: what its adapter collected and how its save went

fetchVars == <<f_pc, f_retries, f_backoff, f_prefix, f_attempt, f_outcomes,
               f_sleeps, f_xml, f_result>>

parseVars == <<j_xml, j_date, j_items>>

crawlVars == <<c_pc, c_url, c_flags, c_requests, c_outcome, c_out>>

folderVars == <<today, clock, news, last, runs>>

toolVars == <<t_pc, t_calls, t_idx, t_seen, t_ran, t_requests, t_loaded>>

extractVars == <<x_fn, x_page, x_body>>

scrapeVars == <<s_pc, s_src, s_entries, s_pages, s_i, s_events, s_result, s_call>>

procVars == <<p_pc, p_run>>

vars == <<fetchVars, parseVars, crawlVars, folderVars, toolVars, extractVars, scrapeVars,
          procVars>>

\* the variables outside the feed fetcher and parser
OutsideFetch == <<crawlVars, folderVars, toolVars, extractVars, scrapeVars,
                   procVars>>

\* the variables outside the article crawler
OutsideCrawl == <<fetchVars, parseVars, folderVars, toolVars, extractVars, scrapeVars,
                   procVars>>

\* the variables outside the news folder and news_list_tool
OutsideTool == <<fetchVars, parseVars, crawlVars, extractVars, scrapeVars,
                   procVars>>

\* the variables outside the pure functions
OutsideExtract == <<fetchVars, parseVars, crawlVars, folderVars, toolVars, scrapeVars,
                   procVars>>

\* the variables outside the news folder and the concurrent adapters
OutsideProc == <<fetchVars, parseVars, crawlVars, toolVars, extractVars, scrapeVars>>

\* the variables outside the full-article scraping loops
OutsideScrape == <<fetchVars, parseVars, crawlVars, folderVars, toolVars, extractVars,
                   procVars>>

\* an optional value: None, or Some(x)
None == <<>>
Some(x) == <<x>>
Get(o) == o[1]

----------------------------------------------------------------------------
(* Bounds of the model *)

MaxDays == 2
MaxFeed == 2
MaxRetries == 4
MaxParas == 2
MaxRuns == 2
MaxCalls == 2
MaxScripts == 1
MaxItems == 2
MaxContainers == 2
MaxSegments == 3

(* Program constants *)

DefaultRetries == 3
DefaultBackoff == 3
ContainerThreshold == 200

----------------------------------------------------------------------------
(* Strings *)

Max(a, b) == IF a >= b THEN a ELSE b
Min(a, b) == IF a <= b THEN a ELSE b

RECURSIVE Pow2(_)
Pow2(n) == IF n <= 0 THEN 1 ELSE 2 * Pow2(n - 1)

\* str.startswith
StartsWith(s, p) == Len(s) >= Len(p) /\ SubSeq(s, 1, Len(p)) = p

RECURSIVE LStrip(_)
LStrip(s) == IF s # <<>> /\ Head(s) = " " THEN LStrip(Tail(s)) ELSE s

RECURSIVE RStrip(_)
RStrip(s) == IF s # <<>> /\ s[Len(s)] = " " THEN RStrip(SubSeq(s, 1, Len(s) - 1)) ELSE s

\* str.strip
Strip(s) == RStrip(LStrip(s))

\* list[:n]
Take(s, n) == SubSeq(s, 1, Min(Len(s), Max(n, 0)))

----------------------------------------------------------------------------
(* Dates *)

Days == 18 .. (17 + MaxDays)

Digit == <<"0", "1", "2", "3", "4", "5", "6", "7", "8", "9">>

\* strftime("%Y-%m-%d"): the day-of-month field, two digits
DateStr(d) == <<Digit[(d \div 10) + 1], Digit[(d % 10) + 1]>>

\* publication dates as the feeds carry them: date, then a time-of-day suffix,
\* possibly with white space between the tag and the text
PubDates == {DateStr(d) \o <<"T">> : d \in Days}
            \cup {<<" ">> \o DateStr(d) \o <<"T">> : d \in Days}

----------------------------------------------------------------------------
(* URLs, titles and feed blocks *)

\* article URLs, as the sequence of path segments after the host
URLs == {<<"news", "sports", "a1">>, <<"entertainment", "a2">>}

CDataOpen == "<![CDATA["
CDataClose == "]]>"

\* the title text a feed carries for an article, plain or wrapped in CDATA
RawTitle(u) == IF u # <<>> /\ u[1] = "news" THEN <<CDataOpen, "t1", CDataClose>> ELSE <<"t2">>

\* a <url> block of a news feed: its <loc>, <news:title> and
\* <news:publication_date> texts, None for a tag the block lacks
WellFormedBlocks ==
    {[loc |-> Some(u), title |-> Some(RawTitle(u)), pub |-> Some(p)] : u \in URLs, p \in PubDates}

MalformedBlocks ==
    LET u == <<"news", "sports", "a1">>
        p == DateStr(18) \o <<"T">>
    IN {[loc |-> None, title |-> Some(RawTitle(u)), pub |-> Some(p)],
        [loc |-> Some(u), title |-> None, pub |-> Some(p)],
        [loc |-> Some(u), title |-> Some(RawTitle(u)), pub |-> None]}

Blocks == WellFormedBlocks \cup MalformedBlocks

SeqsUpTo(S, n) == UNION {[1..k -> S] : k \in 0..n}

Feeds == SeqsUpTo(Blocks, MaxFeed)

----------------------------------------------------------------------------
(* fetch_googlenews_entries: parsing and date filter *)

\* title_raw[9:-3].strip() when title_raw starts with the CDATA marker
StripCData(t) ==
    IF t # <<>> /\ Head(t) = CDataOpen THEN SubSeq(t, 2, Len(t) - 1) ELSE t

\* mutant: the publication date is compared without being stripped
DailyStarDateMatchUnstripped(pub, prefix) == StartsWith(pub, prefix)

\* the date test of the Daily Star feed: the stripped text must start with the prefix
DailyStarDateMatch(pub, prefix) == StartsWith(Strip(pub), prefix)

\* mutant: a block without a title is not skipped
GoogleNewsEntryUntitled(block, prefix) ==
    IF block.loc = None \/ block.pub = None THEN <<>>
    ELSE IF ~DailyStarDateMatch(Get(block.pub), prefix) THEN <<>>
    ELSE <<[url |-> Get(block.loc),
            title |-> IF block.title = None THEN <<>> ELSE StripCData(Get(block.title)),
            pub_date |-> Strip(Get(block.pub))]>>

\* one iteration of the loop over RE_URL_BLOCK.findall(xml): the entry the
\* block contributes, as a list of zero or one entries
GoogleNewsEntry(block, prefix) ==
    IF block.loc = None \/ block.pub = None \/ block.title = None THEN <<>>
    ELSE IF ~DailyStarDateMatch(Get(block.pub), prefix) THEN <<>>
    ELSE <<[url |-> Get(block.loc), title |-> StripCData(Get(block.title)),
            pub_date |-> Strip(Get(block.pub))]>>

RECURSIVE ParseGoogleNews(_, _)
ParseGoogleNews(xml, prefix) ==
    IF xml = <<>> THEN <<>>
    ELSE GoogleNewsEntry(Head(xml), prefix) \o ParseGoogleNews(Tail(xml), prefix)

----------------------------------------------------------------------------
(* jugantor_scraper.py: parse_news_sitemap and infer_category_from_url *)

\* urlparse(url).path.strip("/").split("/"): splitting the empty path gives [""]
PathParts(u) == IF u = <<>> THEN <<"">> ELSE u

infer_category_from_url(u) ==
    IF PathParts(u) # <<>> THEN PathParts(u)[1] ELSE "unknown"

\* the date test of parse_news_sitemap: get_text() is compared as it stands
JugantorDateMatch(pub, date_str) == StartsWith(pub, date_str)

\* one iteration of the loop over soup.find_all("url")
SitemapItem(block, date_str) ==
    IF block.loc = None \/ block.pub = None \/ block.title = None THEN <<>>
    ELSE IF ~JugantorDateMatch(Get(block.pub), date_str) THEN <<>>
    ELSE <<[url |-> Get(block.loc), title |-> StripCData(Get(block.title)),
            category |-> infer_category_from_url(Get(block.loc))]>>

RECURSIVE parse_news_sitemap(_, _)
parse_news_sitemap(xml_text, date_str) ==
    IF xml_text = <<>> THEN <<>>
    ELSE SitemapItem(Head(xml_text), date_str) \o parse_news_sitemap(Tail(xml_text), date_str)

----------------------------------------------------------------------------
(* fetch_googlenews_entries: the retry loop *)

\* what session.get(...) followed by raise_for_status() can do
TransportErrors == {"ConnectionError"}
HttpErrors == {"HTTPError"}
RequestFailures == TransportErrors \cup HttpErrors

\* mutant: the handler catches HTTP status errors only
FetchCatchesHttpOnly(exc) == exc \in HttpErrors

\* "except Exception" of the retry loop
FetchCatches(exc) == exc \in RequestFailures \cup {"AttributeError", "OSError", "ParseError"}

\* mutant: the loop gives up one attempt early
GiveUpEarly(attempt, retries) == attempt = retries - 2

\* "if attempt == retries - 1: return []"
GiveUp(attempt, retries) == attempt = retries - 1

\* range(max(1, retries))
LoopBound(retries) == Max(1, retries)

\* time.sleep(backoff * (2 ** attempt))
BackoffDelay(backoff, attempt) == backoff * Pow2(attempt)

\* the file-name prefixes of the four sources
Sources == {"jugantor", "dailystar", "prothomalo", "dhaka_tribune"}

\* the record of a run that has not happened
NoRun ==
    [src |-> "none", writer |-> "none", day |-> 0, time |-> 0, collected |-> <<>>,
     requests |-> 0, pages |-> 0, saves |-> FALSE, fs |-> "ok", wrote |-> FALSE,
     raised |-> FALSE, before |-> None]

\* what an adapter process holds before it has collected anything
NoCollection ==
    [writer |-> "none", headlines |-> <<>>, saves |-> FALSE, fs |-> "ok", time |-> 0]

\* before any call: every component is idle and the news folder is empty
Init ==
    /\ f_pc = "idle"
    /\ f_retries = DefaultRetries
    /\ f_backoff = DefaultBackoff
    /\ f_prefix = DateStr(18)
    /\ f_attempt = 0
    /\ f_outcomes = <<>>
    /\ f_sleeps = <<>>
    /\ f_xml = None
    /\ f_result = None
    /\ j_xml = None
    /\ j_date = DateStr(18)
    /\ j_items = None
    /\ c_pc = "idle"
    /\ c_url = None
    /\ c_flags = [markdown |-> FALSE, raw |-> FALSE]
    /\ c_requests = 0
    /\ c_outcome = "none"
    /\ c_out = None
    /\ today = 18
    /\ clock = 0
    /\ news = [s \in Sources |-> [d \in Days |-> None]]
    /\ last = NoRun
    /\ runs = 0
    /\ t_pc = "idle"
    /\ t_calls = 0
    /\ t_idx = 1
    /\ t_seen = {}
    /\ t_ran = <<>>
    /\ t_requests = 0
    /\ t_loaded = None
    /\ x_fn = "none"
    /\ x_page = None
    /\ x_body = None
    /\ s_pc = "idle"
    /\ s_src = "none"
    /\ s_entries = <<>>
    /\ s_pages = <<>>
    /\ s_i = 1
    /\ s_events = <<>>
    /\ s_result = <<>>
    /\ s_call = [matching |-> <<>>, max_articles |-> 0]
    /\ p_pc = [s \in Sources |-> "idle"]
    /\ p_run = [s \in Sources |-> NoCollection]

\* a call fetch_googlenews_entries(session, date_prefix, retries=.., backoff=..)
FetchCall ==
    /\ f_pc = "idle" /\ j_items = None
    /\ \E r \in 0..MaxRetries, b \in {DefaultBackoff, 2}, d \in Days :
         /\ f_retries' = r
         /\ f_backoff' = b
         /\ f_prefix' = DateStr(d)
    /\ f_pc' = "loop"
    /\ f_attempt' = 0
    /\ f_outcomes' = <<>>
    /\ f_sleeps' = <<>>
    /\ f_xml' = None
    /\ f_result' = None
    /\ UNCHANGED <<parseVars, OutsideFetch>>

\* an iteration whose request succeeds: xml = resp.text; break; then the parse
FetchAttemptOk ==
    /\ f_pc = "loop"
    /\ f_attempt < LoopBound(f_retries)
    /\ \E feed \in Feeds :
         /\ f_xml' = Some(feed)
         /\ f_result' = Some(ParseGoogleNews(feed, f_prefix))
    /\ f_outcomes' = Append(f_outcomes, "ok")
    /\ f_pc' = "done"
    /\ UNCHANGED <<f_retries, f_backoff, f_prefix, f_attempt, f_sleeps>>
    /\ UNCHANGED <<parseVars, OutsideFetch>>

\* an iteration whose request raises exc
FetchAttemptFail ==
    /\ f_pc = "loop"
    /\ f_attempt < LoopBound(f_retries)
    /\ \E exc \in RequestFailures :
         /\ f_outcomes' = Append(f_outcomes, exc)
         /\ IF ~FetchCatches(exc)
            THEN /\ f_pc' = "raised"
                 /\ UNCHANGED <<f_attempt, f_sleeps, f_result>>
            ELSE IF GiveUp(f_attempt, f_retries)
            THEN /\ f_pc' = "done"
                 /\ f_result' = Some(<<>>)
                 /\ UNCHANGED <<f_attempt, f_sleeps>>
            ELSE /\ f_sleeps' = Append(f_sleeps, BackoffDelay(f_backoff, f_attempt))
                 /\ f_attempt' = f_attempt + 1
                 \* the loop ends without xml: "if not xml: return []"
                 /\ IF f_attempt + 1 >= LoopBound(f_retries)
                    THEN f_pc' = "done" /\ f_result' = Some(<<>>)
                    ELSE f_pc' = "loop" /\ UNCHANGED f_result
    /\ UNCHANGED <<f_retries, f_backoff, f_prefix, f_xml>>
    /\ UNCHANGED <<parseVars, OutsideFetch>>

\* a call parse_news_sitemap(xml_text, date_str)
ParseSitemapCall ==
    /\ f_pc = "idle" /\ j_items = None
    /\ \E xml \in Feeds, d \in Days :
         /\ j_xml' = Some(xml)
         /\ j_date' = DateStr(d)
         /\ j_items' = Some(parse_news_sitemap(xml, DateStr(d)))
    /\ UNCHANGED <<fetchVars, OutsideFetch>>

FetchNext == FetchCall \/ FetchAttemptOk \/ FetchAttemptFail \/ ParseSitemapCall

SpecFetch == Init /\ [][FetchNext]_vars

----------------------------------------------------------------------------
(* core/universal_article_crawler.py: article_crawler *)

\* texts a page can carry in its <title> or in a <p>
PageTexts == {<<"t">>, <<" ", "t", " ">>, <<"Error:", "x">>}

\* soup.title: no <title> element (None), a <title> whose .string is None
\* (it is empty or has child elements), or a <title> with a text
PageTitles ==
    {[kind |-> "absent", text |-> <<>>], [kind |-> "nostring", text |-> <<>>]}
    \cup {[kind |-> "text", text |-> t] : t \in PageTexts}

\* a fetched page: its <title> and the texts of its <p> elements
Pages == {[title |-> t, paras |-> ps] : t \in PageTitles, ps \in SeqsUpTo(PageTexts, MaxParas)}

CrawlUrls == {"u1", "u2"}

\* str.join
RECURSIVE Join(_, _)
Join(sep, parts) ==
    IF parts = <<>> THEN <<>>
    ELSE IF Len(parts) = 1 THEN parts[1]
    ELSE parts[1] \o sep \o Join(sep, Tail(parts))

\* "except Exception" of article_crawler
CrawlCatches(exc) == exc \in RequestFailures \cup {"AttributeError", "OSError", "ParseError"}

\* parse_article_html: the exception it raises, or "ok"
ParseOutcome(page) == IF page.title.kind = "nostring" THEN "AttributeError" ELSE "ok"

\* parse_article_html: title = soup.title.string.strip() if soup.title else None;
\* body = "\n\n".join(p.get_text(strip=True) for p in soup.find_all("p"))
parse_article_html(url, page) ==
    [url |-> url,
     site |-> <<"netloc">>,
     title |-> IF page.title.kind = "absent" THEN None ELSE Some(Strip(page.title.text)),
     author |-> None,
     published |-> None,
     body |-> Join(<<"\n\n">>, [i \in 1..Len(page.paras) |-> Strip(page.paras[i])])]

\* str(x) of an optional text inside an f-string
FStr(o) == IF o = None THEN <<"None">> ELSE Get(o)

\* format_text
format_text(article) ==
    <<"TITLE:", " ">> \o FStr(article.title) \o <<"\n", "URL:", " ", article.url>>
    \o <<"\n", "SITE:", " ">> \o article.site \o <<"\n\n", "CONTENT:", "\n">> \o article.body

\* mutant: the markdown heading marker is left out
FormatMarkdownNoMarker(article) == FStr(article.title) \o <<"\n\n">> \o article.body

\* f"# {article.title}\n\n{article.body}"
FormatMarkdown(article) == <<"#", " ">> \o FStr(article.title) \o <<"\n\n">> \o article.body

\* json.dumps(asdict(article), ensure_ascii=False, indent=2)
FormatRaw(article) ==
    <<"{", "\"url\":", article.url, "\"site\":">> \o article.site
    \o <<"\"title\":">> \o (IF article.title = None THEN <<"null">> ELSE Get(article.title))
    \o <<"\"author\":", "null", "\"published\":", "null", "\"body\":">> \o article.body
    \o <<"}">>

\* the final if / elif / else of article_crawler
FormatArticle(article, flags) ==
    IF flags.raw THEN FormatRaw(article)
    ELSE IF flags.markdown THEN FormatMarkdown(article)
    ELSE format_text(article)

\* f"Error: {e}"
ErrorString(msg) == <<"Error:", " ", msg>>

Flags == [markdown : BOOLEAN, raw : BOOLEAN]

\* article_crawler called without a usable url: "if not url: return ..."
CrawlMissingUrl ==
    /\ c_pc = "idle"
    /\ \E u \in {None, Some("")}, fl \in Flags :
         /\ c_url' = u
         /\ c_flags' = fl
    /\ c_out' = Some(ErrorString("URL parameter is required"))
    /\ c_pc' = "done"
    /\ UNCHANGED <<c_requests, c_outcome>>
    /\ UNCHANGED OutsideCrawl

\* article_crawler whose fetch raises: requests.get or raise_for_status fails
CrawlFetchFail ==
    /\ c_pc = "idle"
    /\ \E u \in CrawlUrls, fl \in Flags, exc \in RequestFailures :
         /\ c_url' = Some(u)
         /\ c_flags' = fl
         /\ c_outcome' = exc
         /\ IF CrawlCatches(exc)
            THEN c_out' = Some(ErrorString(exc)) /\ c_pc' = "done"
            ELSE c_out' = None /\ c_pc' = "raised"
    /\ c_requests' = c_requests + 1
    /\ UNCHANGED OutsideCrawl

\* article_crawler whose fetch returns a page: parse, then format
CrawlFetchOk ==
    /\ c_pc = "idle"
    /\ \E u \in CrawlUrls, fl \in Flags, page \in Pages :
         /\ c_url' = Some(u)
         /\ c_flags' = fl
         /\ c_outcome' = ParseOutcome(page)
         /\ IF ParseOutcome(page) = "ok"
            THEN /\ c_out' = Some(FormatArticle(parse_article_html(u, page), fl))
                 /\ c_pc' = "done"
            ELSE IF CrawlCatches(ParseOutcome(page))
            THEN c_out' = Some(ErrorString(ParseOutcome(page))) /\ c_pc' = "done"
            ELSE c_out' = None /\ c_pc' = "raised"
    /\ c_requests' = c_requests + 1
    /\ UNCHANGED OutsideCrawl

CrawlNext == CrawlMissingUrl \/ CrawlFetchFail \/ CrawlFetchOk

SpecCrawl == Init /\ [][CrawlNext]_vars

----------------------------------------------------------------------------
(* daily_star_scraper.py: extract_article_text *)

\* an HTML tag inside a text
IsTag(tok) == tok \in {"<b>", "</b>"}

\* white space as str.strip() sees it
IsSpace(tok) == tok \in {" ", "\n"}

RECURSIVE LStripSpace(_)
LStripSpace(s) == IF s # <<>> /\ IsSpace(Head(s)) THEN LStripSpace(Tail(s)) ELSE s

RECURSIVE RStripSpace(_)
RStripSpace(s) ==
    IF s # <<>> /\ IsSpace(s[Len(s)]) THEN RStripSpace(SubSeq(s, 1, Len(s) - 1)) ELSE s

\* str.strip() of a text that may hold newlines
StripSpace(s) == RStripSpace(LStripSpace(s))

\* the text nodes of a parsed fragment: the runs of tokens between tags
RECURSIVE TextNodes(_, _)
TextNodes(s, cur) ==
    IF s = <<>> THEN (IF cur = <<>> THEN <<>> ELSE <<cur>>)
    ELSE IF IsTag(Head(s))
         THEN (IF cur = <<>> THEN <<>> ELSE <<cur>>) \o TextNodes(Tail(s), <<>>)
         ELSE TextNodes(Tail(s), Append(cur, Head(s)))

\* BeautifulSoup(text, "html.parser").get_text(separator=sep)
GetText(sep, s) == Join(sep, TextNodes(s, <<>>))

\* the texts an articleBody string can hold
BodyTexts == {<<"x">>, <<"<b>", "</b>">>, <<" ", "x", "<b>", "y", "</b>", " ">>}

\* the JSON values of the articleBody key: absent (or null), a string, a list
BodyValues ==
    {None}
    \cup {Some([list |-> FALSE, parts |-> <<t>>]) : t \in BodyTexts \cup {<<>>}}
    \cup {Some([list |-> TRUE, parts |-> <<>>]),
          Some([list |-> TRUE, parts |-> << <<"x">>, <<"y">> >>])}

\* the elements of a JSON-LD document: a dict, or some other JSON value
LdItems ==
    {[dict |-> FALSE, articleBody |-> None]}
    \cup {[dict |-> TRUE, articleBody |-> v] : v \in BodyValues}

\* a <script type="application/ld+json">: its text is empty or is not JSON even
\* after the first-object recovery (parsed = FALSE), or it parses to a dict or
\* a list, of which items are the elements
LdScripts ==
    {[parsed |-> FALSE, items |-> <<>>]}
    \cup {[parsed |-> TRUE, items |-> its] : its \in SeqsUpTo(LdItems, MaxItems)}

\* an element whose class or id matches the container pattern: its text and
\* the length in characters of that text, stripped
Containers ==
    {[text |-> <<"c150">>, len |-> 150],
     [text |-> <<"c200">>, len |-> ContainerThreshold],
     [text |-> <<"c201">>, len |-> ContainerThreshold + 1]}

\* the texts of the <p> elements
ParaTexts == PageTexts \cup {<<>>}

\* an article page as extract_article_text sees it
ArticlePages ==
    {[scripts |-> ss, containers |-> cs, paras |-> ps] :
        ss \in SeqsUpTo(LdScripts, MaxScripts),
        cs \in SeqsUpTo(Containers, MaxContainers),
        ps \in SeqsUpTo(ParaTexts, MaxParas)}

\* a page that has only <p> elements
ParagraphPages == {pg \in ArticlePages : pg.scripts = <<>> /\ pg.containers = <<>>}

\* "if article_body:" on a string or a list
Truthy(v) == IF v.list THEN v.parts # <<>> ELSE v.parts[1] # <<>>

\* the text of an articleBody value: a list is joined by "\n", then the tags
\* are removed and the result stripped
ArticleBodyText(v) ==
    StripSpace(GetText(<<"\n">>, IF v.list THEN Join(<<"\n">>, v.parts) ELSE v.parts[1]))

\* mutant: the text of an articleBody is never taken
BodyNeverUsable(text) == FALSE

\* "if text: return text"
BodyUsable(text) == text # <<>>

\* the text the item loop returns, or None when it ends without a return
RECURSIVE ItemsBody(_)
ItemsBody(items) ==
    IF items = <<>> THEN None
    ELSE LET item == Head(items)
         IN IF item.dict /\ item.articleBody # None /\ Truthy(Get(item.articleBody))
                /\ BodyUsable(ArticleBodyText(Get(item.articleBody)))
            THEN Some(ArticleBodyText(Get(item.articleBody)))
            ELSE ItemsBody(Tail(items))

\* the JSON-LD loop over the script tags
RECURSIVE JsonLdBody(_)
JsonLdBody(scripts) ==
    IF scripts = <<>> THEN None
    ELSE IF Head(scripts).parsed /\ ItemsBody(Head(scripts).items) # None
         THEN ItemsBody(Head(scripts).items)
         ELSE JsonLdBody(Tail(scripts))

\* the candidate with the most text: a later one wins only if strictly longer
RECURSIVE BestCandidate(_, _)
BestCandidate(cands, best) ==
    IF cands = <<>> THEN best
    ELSE BestCandidate(Tail(cands), IF Head(cands).len > best.len THEN Head(cands) ELSE best)

\* mutant: a text of exactly the threshold length is accepted
LongEnoughInclusive(len) == len >= ContainerThreshold

\* "if len(best_text) > 200"
LongEnough(len) == len > ContainerThreshold

\* the container tier: the best text, if longer than the threshold
ContainerBody(cands) ==
    LET best == BestCandidate(cands, [text |-> <<>>, len |-> 0])
    IN IF LongEnough(best.len) THEN Some(best.text) ELSE None

\* mutant: the joined paragraphs are returned without the final strip()
ParagraphBodyUnstripped(paras) ==
    Join(<<"\n">>, [i \in 1..Len(paras) |-> Strip(paras[i])])

\* the fallback: "\n".join(p.get_text(strip=True) for p in ...).strip()
ParagraphBody(paras) ==
    StripSpace(Join(<<"\n">>, [i \in 1..Len(paras) |-> Strip(paras[i])]))

\* extract_article_text
extract_article_text(page) ==
    IF JsonLdBody(page.scripts) # None THEN Get(JsonLdBody(page.scripts))
    ELSE IF ContainerBody(page.containers) # None THEN Get(ContainerBody(page.containers))
    ELSE ParagraphBody(page.paras)

\* extract_article_text is applied to a page
ExtractArticleText ==
    /\ x_fn = "none"
    /\ \E page \in ArticlePages :
        /\ x_page' = Some(page)
        /\ x_body' = Some(extract_article_text(page))
    /\ x_fn' = "extract_article_text"
    /\ UNCHANGED OutsideExtract

\* parse_article_html of the universal crawler is applied to a page
ExtractUniversal ==
    /\ x_fn = "none"
    /\ \E page \in ParagraphPages :
        /\ x_page' = Some(page)
        /\ x_body' = Some(parse_article_html("u1",
                               [title |-> [kind |-> "absent", text |-> <<>>],
                                paras |-> page.paras]).body)
    /\ x_fn' = "parse_article_html"
    /\ UNCHANGED OutsideExtract

ExtractNext == ExtractArticleText \/ ExtractUniversal

SpecExtract == Init /\ [][ExtractNext]_vars

----------------------------------------------------------------------------
(* prothomalo_scraper.py: extract_title_from_html *)

\* the value of a "headline" key met by the JSON-LD loop: not a string
\* (None), or a string
HeadlineValues == {None, Some(<<>>), Some(<<" ">>), Some(<<" ", "hl", " ">>)}

\* the content attribute of <meta property="og:title">: no such element or no
\* content attribute (None), or a string
OgValues == {None, Some(<<>>), Some(<<" ">>), Some(<<" ", "og", " ">>)}

\* soup.title.string: no <title> or no single string in it (None), or a string
TitleValues == {None, Some(<<" ">>), Some(<<" ", "ti", " ">>)}

\* the first <h1>: none (None), or its text
H1Values == {None, Some(<<" ">>), Some(<<" ", "h1", " ">>)}

\* a page as extract_title_from_html sees it: the headline values of the
\* JSON-LD items in the order the loop meets them, and the three elements
TitlePages ==
    {[headlines |-> hs, og |-> og, title |-> ti, h1 |-> h1] :
        hs \in SeqsUpTo(HeadlineValues, MaxItems), og \in OgValues,
        ti \in TitleValues, h1 \in H1Values}

\* the JSON-LD loop: the first headline that is a string with text, stripped
RECURSIVE JsonLdHeadline(_)
JsonLdHeadline(headlines) ==
    IF headlines = <<>> THEN None
    ELSE IF Head(headlines) # None /\ Strip(Get(Head(headlines))) # <<>>
         THEN Some(Strip(Get(Head(headlines))))
         ELSE JsonLdHeadline(Tail(headlines))

\* extract_title_from_html: "if og and og.get('content')" tests the content
\* before it is stripped
extract_title_from_html(page) ==
    IF JsonLdHeadline(page.headlines) # None THEN JsonLdHeadline(page.headlines)
    ELSE IF page.og # None /\ Get(page.og) # <<>> THEN Some(Strip(Get(page.og)))
    ELSE IF page.title # None /\ Strip(Get(page.title)) # <<>>
         THEN Some(Strip(Get(page.title)))
    ELSE IF page.h1 # None /\ Strip(Get(page.h1)) # <<>> THEN Some(Strip(Get(page.h1)))
    ELSE None

\* extract_title_from_html is applied to a page
ExtractTitle ==
    /\ x_fn = "none"
    /\ \E page \in TitlePages :
        /\ x_page' = Some(page)
        /\ x_body' = extract_title_from_html(page)
    /\ x_fn' = "extract_title_from_html"
    /\ UNCHANGED OutsideExtract

SpecTitle == Init /\ [][ExtractTitle]_vars

----------------------------------------------------------------------------
(* The four site adapters: headline collection *)

\* the outcome of one HTTP request
NetOutcomes == {"ok"} \cup RequestFailures

\* the title an article page or feed gives for a URL
TitleText(u) == StripCData(RawTitle(u))

(* jugantor_scraper.py *)

JugantorMaxArticles == 10

\* fetch_news_sitemap: the text, or None when the request raises
fetch_news_sitemap(net, feed) == IF net = "ok" THEN Some(feed) ELSE None

\* get_jugantor_headlines; one request is issued
get_jugantor_headlines(net, feed, day, max_articles) ==
    LET xml == fetch_news_sitemap(net, feed)
    IN [requests |-> 1,
        pages |-> 0,
        headlines |-> IF xml = None \/ Get(xml) = <<>> THEN <<>>
                      ELSE Take(parse_news_sitemap(Get(xml), DateStr(day)), max_articles)]

(* daily_star_scraper.py *)

DailyStarMaxArticles == 20
MaxDaysFallback == 3

\* fetch_googlenews_entries as a function of the number of leading attempts
\* that fail: the entries returned and the requests issued
RECURSIVE FetchLoop(_, _, _, _, _)
FetchLoop(attempt, retries, fails, feed, prefix) ==
    IF attempt >= LoopBound(retries) THEN [entries |-> <<>>, requests |-> 0]
    ELSE IF attempt >= fails THEN [entries |-> ParseGoogleNews(feed, prefix), requests |-> 1]
    ELSE IF GiveUp(attempt, retries) THEN [entries |-> <<>>, requests |-> 1]
    ELSE LET rest == FetchLoop(attempt + 1, retries, fails, feed, prefix)
         IN [entries |-> rest.entries, requests |-> rest.requests + 1]

\* [part for part in url.split("/") if part]
UrlSplit(u) == <<"https:", "host">> \o u

\* the category inference of get_dailystar_headlines and fetch_article
DailyStarCategory(u) ==
    LET path_parts == UrlSplit(u)
    IN IF Len(path_parts) > 3
       THEN IF path_parts[4] # "news" THEN path_parts[4]
            ELSE IF Len(path_parts) > 4 THEN path_parts[5] ELSE "unknown"
       ELSE "unknown"

DailyStarHeadline(entry) ==
    [url |-> entry.url, title |-> entry.title, category |-> DailyStarCategory(entry.url)]

\* mutant: a day is used only if it has two entries or more
FallbackStopsOnTwo(results) == Len(results) >= 2

\* "if results: return results"
FallbackStops(results) == results # <<>>

\* the loop over delta of get_dailystar_headlines, from delta on; asked lists
\* the deltas whose feed request was made, in order
RECURSIVE DailyStarFallback(_, _, _, _, _, _)
DailyStarFallback(delta, fails, feed, day, max_articles, max_days_fallback) ==
    IF delta > Max(0, max_days_fallback)
    THEN [requests |-> 0, asked |-> <<>>, headlines |-> <<>>]
    ELSE LET got == FetchLoop(0, DefaultRetries, fails, feed, DateStr(day - delta))
             entries == Take(got.entries, max_articles)
         IN IF FallbackStops(entries)
            THEN [requests |-> got.requests,
                  asked |-> <<delta>>,
                  headlines |-> [i \in 1..Len(entries) |-> DailyStarHeadline(entries[i])]]
            ELSE LET rest == DailyStarFallback(delta + 1, fails, feed, day,
                                               max_articles, max_days_fallback)
                 IN [requests |-> got.requests + rest.requests,
                     asked |-> <<delta>> \o rest.asked,
                     headlines |-> rest.headlines]

\* get_dailystar_headlines: the warm-up request, then the fallback loop
get_dailystar_headlines(fails, feed, day, max_articles, max_days_fallback) ==
    LET r == DailyStarFallback(0, fails, feed, day, max_articles, max_days_fallback)
    IN [requests |-> r.requests + 1, pages |-> 0, asked |-> r.asked,
        headlines |-> r.headlines]

(* prothomalo_scraper.py *)

ProthomAloPerSection == 2

DefaultSections ==
    <<"bangladesh", "sports", "politics", "business", "entertainment", "lifestyle", "world">>

\* the URLs a Prothom Alo sitemap lists
PaUrls == URLs \cup {<<"bangla", "a3">>}

Range(f) == {f[i] : i \in DOMAIN f}

\* filter_urls_by_sections
filter_urls_by_sections(urls, sections) ==
    SelectSeq(urls, LAMBDA u : \E part \in Range(PathParts(u)) : part \in sections)

\* fetch_title for each url of a list, keeping those with a title
Titled(urls, titleOk, section) ==
    LET ok == SelectSeq(urls, LAMBDA u : titleOk[u])
    IN [i \in 1..Len(ok) |-> [url |-> ok[i], title |-> TitleText(ok[i]), section |-> section]]

\* _build_results with sections: per section, in the order of the section list
\* (every request of _build_results is a fetch_title of an article page)
RECURSIVE BuildBySections(_, _, _, _)
BuildBySections(secs, urls, titleOk, per_section) ==
    IF secs = <<>> THEN [requests |-> 0, items |-> <<>>]
    ELSE LET picked == Take(filter_urls_by_sections(urls, {Head(secs)}), per_section)
             rest == BuildBySections(Tail(secs), urls, titleOk, per_section)
         IN [requests |-> Len(picked) + rest.requests,
             items |-> Titled(picked, titleOk, Head(secs)) \o rest.items]

\* _build_results without sections: the section is inferred from the path
BuildUnfiltered(urls, titleOk, per_section) ==
    LET picked == Take(urls, Max(1, per_section * 7))
        ok == SelectSeq(picked, LAMBDA u : titleOk[u])
    IN [requests |-> Len(picked),
        items |-> [i \in 1..Len(ok) |->
                     [url |-> ok[i], title |-> TitleText(ok[i]),
                      section |-> IF PathParts(ok[i])[1] # "" THEN PathParts(ok[i])[1]
                                  ELSE "unknown"]]]

\* the loop over delta of get_prothomalo_headlines, from delta on; sitemaps[d]
\* is what fetch_sitemap_urls returns for the sitemap of d days ago
RECURSIVE ProthomAloFallback(_, _, _, _, _, _)
ProthomAloFallback(delta, sitemaps, titleOk, sections, per_section, max_days_fallback) ==
    IF delta > Max(0, max_days_fallback)
    THEN [requests |-> 0, pages |-> 0, asked |-> <<>>, headlines |-> <<>>]
    ELSE LET urls == sitemaps[delta]
             rest == ProthomAloFallback(delta + 1, sitemaps, titleOk, sections,
                                        per_section, max_days_fallback)
             first == IF sections # <<>>
                      THEN BuildBySections(sections, urls, titleOk, per_section)
                      ELSE [requests |-> 0, items |-> <<>>]
             second == BuildUnfiltered(urls, titleOk, per_section)
         IN IF urls = <<>>
            THEN [requests |-> 1 + rest.requests, pages |-> rest.pages,
                  asked |-> <<delta>> \o rest.asked,
                  headlines |-> rest.headlines]
            ELSE IF first.items # <<>>
            THEN [requests |-> 1 + first.requests, pages |-> first.requests,
                  asked |-> <<delta>>,
                  headlines |-> first.items]
            ELSE IF second.items # <<>>
            THEN [requests |-> 1 + first.requests + second.requests,
                  pages |-> first.requests + second.requests,
                  asked |-> <<delta>>,
                  headlines |-> second.items]
            ELSE [requests |-> 1 + first.requests + second.requests + rest.requests,
                  pages |-> first.requests + second.requests + rest.pages,
                  asked |-> <<delta>> \o rest.asked,
                  headlines |-> rest.headlines]

get_prothomalo_headlines(sitemaps, titleOk, per_section) ==
    ProthomAloFallback(0, sitemaps, titleOk, DefaultSections, per_section, MaxDaysFallback)

(* dhaka_tribune_scraper.py *)

DhakaLimit == 10

\* the <loc> texts a Dhaka Tribune sitemap lists
DtUrls == URLs \cup {<<"api", "x">>}

\* the robots.txt test of get_latest_article_urls
Disallowed(u) ==
    /\ u # <<>>
    /\ \/ u[1] \in {"cgi-bin", "cdn-cgi", "register", "api"} /\ Len(u) >= 2
       \/ u[1] = "login"

\* the loop of get_latest_article_urls over the <url> elements
RECURSIVE LatestUrls(_, _, _)
LatestUrls(locs, limit, urls) ==
    IF locs = <<>> THEN urls
    ELSE IF Disallowed(Head(locs)) THEN LatestUrls(Tail(locs), limit, urls)
    ELSE IF Len(urls) + 1 >= limit THEN Append(urls, Head(locs))
    ELSE LatestUrls(Tail(locs), limit, Append(urls, Head(locs)))

\* get_latest_article_urls: [] when the request raises or the XML does not parse
get_latest_article_urls(net, locs, limit) ==
    IF net # "ok" THEN <<>> ELSE LatestUrls(locs, limit, <<>>)

\* what parse_article gives for a URL: it raises ("fail"), or returns an
\* Article without title, author and date ("bare") or with all three ("full")
ArticleKinds == {"fail", "bare", "full"}

parse_article(u, kind) ==
    [url |-> u,
     title |-> IF kind = "full" THEN TitleText(u) ELSE <<>>,
     author |-> IF kind = "full" THEN Some(<<"author">>) ELSE None,
     publication_date |-> IF kind = "full" THEN Some(<<"2025-09-19T10:00">>) ELSE None]

\* the loop of main: the articles whose parse_article did not raise
DhakaArticles(urls, kinds) ==
    LET ok == SelectSeq(urls, LAMBDA u : kinds[u] # "fail")
    IN [i \in 1..Len(ok) |-> parse_article(ok[i], kinds[ok[i]])]

\* get_dhaka_tribune_headlines: "article.author or 'Unknown'"
DhakaHeadline(a) ==
    [url |-> a.url, title |-> a.title,
     author |-> IF a.author = None THEN <<"Unknown">> ELSE Get(a.author),
     publication_date |-> IF a.publication_date = None THEN <<"Unknown">>
                          ELSE Get(a.publication_date)]

get_dhaka_tribune_headlines(net, locs, kinds, max_articles) ==
    LET urls == get_latest_article_urls(net, locs, max_articles)
        arts == DhakaArticles(urls, kinds)
    IN [requests |-> 1 + Len(urls),
        pages |-> Len(urls),
        headlines |-> [i \in 1..Len(arts) |-> DhakaHeadline(arts[i])]]

----------------------------------------------------------------------------
(* Category inference of the adapters, as a function of the URL *)

\* path segments of the URLs the inference is applied to
Segments == {"news", "sports", "entertainment", "article-1", "article-2"}

\* the URLs: every path of up to MaxSegments segments, the empty path included
CategoryUrls == SeqsUpTo(Segments, MaxSegments)

\* the category key of a headline dict, or None if the dict has no such key
CategoryOf(headline) ==
    IF "category" \in DOMAIN headline THEN Some(headline.category)
    ELSE IF "section" \in DOMAIN headline THEN Some(headline.section)
    ELSE None

\* get_dailystar_headlines builds the headline of an entry
CategoryDailyStar ==
    /\ x_fn = "none"
    /\ \E u \in CategoryUrls :
        /\ x_page' = Some(u)
        /\ x_body' = CategoryOf(DailyStarHeadline([url |-> u, title |-> TitleText(u)]))
    /\ x_fn' = "get_dailystar_headlines"
    /\ UNCHANGED OutsideExtract

\* parse_news_sitemap builds the item of a <url> block
CategoryJugantor ==
    /\ x_fn = "none"
    /\ \E u \in CategoryUrls :
        /\ x_page' = Some(u)
        /\ x_body' = CategoryOf(
                        SitemapItem([loc |-> Some(u), pub |-> Some(DateStr(18) \o <<"T">>),
                                     title |-> Some(RawTitle(u))], DateStr(18))[1])
    /\ x_fn' = "parse_news_sitemap"
    /\ UNCHANGED OutsideExtract

\* _build_results, without section filtering, builds the item of a URL
CategoryProthomAlo ==
    /\ x_fn = "none"
    /\ \E u \in CategoryUrls :
        /\ x_page' = Some(u)
        /\ x_body' = CategoryOf(BuildUnfiltered(<<u>>, [v \in {u} |-> TRUE], 1).items[1])
    /\ x_fn' = "_build_results"
    /\ UNCHANGED OutsideExtract

\* get_dhaka_tribune_headlines builds the headline of an article
CategoryDhakaTribune ==
    /\ x_fn = "none"
    /\ \E u \in CategoryUrls :
        /\ x_page' = Some(u)
        /\ x_body' = CategoryOf(DhakaHeadline(parse_article(u, "full")))
    /\ x_fn' = "get_dhaka_tribune_headlines"
    /\ UNCHANGED OutsideExtract

CategoryNext ==
    \/ CategoryDailyStar
    \/ CategoryJugantor
    \/ CategoryProthomAlo
    \/ CategoryDhakaTribune

SpecCategory == Init /\ [][CategoryNext]_vars

----------------------------------------------------------------------------
(* scrape_daily_star and scrape_jugantor: the per-article loops *)

ScrapeDailyStarMaxArticles == 10
ScrapeJugantorMaxArticles == 30

\* the feed of the day: up to MaxFeed entries dated today, with distinct URLs
ScrapeBlocks ==
    <<[loc |-> Some(<<"news", "sports", "a1">>),
       title |-> Some(RawTitle(<<"news", "sports", "a1">>)),
       pub |-> Some(DateStr(18) \o <<"T">>)],
      [loc |-> Some(<<"entertainment", "a2">>),
       title |-> Some(RawTitle(<<"entertainment", "a2">>)),
       pub |-> Some(DateStr(18) \o <<"T">>)],
      [loc |-> Some(<<"sports", "a3">>),
       title |-> Some(RawTitle(<<"sports", "a3">>)),
       pub |-> Some(DateStr(18) \o <<"T">>)]>>

ScrapeFeeds == {Take(ScrapeBlocks, n) : n \in 0..MaxFeed}

\* the title and the body the extraction finds in a page
FoundTitles == {None, Some(<<>>), Some(<<"h1">>)}
FoundBodies == {None, Some(<<>>), Some(<<"body">>)}

\* an article page of The Daily Star: the request fails, or the page has an
\* <h1> (or none) and extract_article_text returns a string
DailyStarPages ==
    {[fetched |-> FALSE, raises |-> FALSE, title |-> None, body |-> Some(<<>>)]}
    \cup {[fetched |-> TRUE, raises |-> FALSE, title |-> t, body |-> b] :
            t \in FoundTitles, b \in FoundBodies \ {None}}

\* an article page of Jugantor: the request fails, or the JSON-LD of the page
\* holds a value that makes ", ".join(names) or BeautifulSoup(body_html) raise
\* TypeError, or the extraction ends with a title and a body (or None)
JugantorPages ==
    {[fetched |-> FALSE, raises |-> FALSE, title |-> None, body |-> None],
     [fetched |-> TRUE, raises |-> TRUE, title |-> None, body |-> None]}
    \cup {[fetched |-> TRUE, raises |-> FALSE, title |-> t, body |-> b] :
            t \in FoundTitles, b \in FoundBodies}

\* "not x" for an optional string
Falsy(o) == o = None \/ Get(o) = <<>>

\* fetch_article: None, or the article dict
fetch_article(url, page) ==
    IF ~page.fetched THEN None
    ELSE IF Falsy(page.title) \/ Falsy(page.body) THEN None
    ELSE Some([title |-> Get(page.title), body |-> page.body, url |-> url,
               category |-> DailyStarCategory(url)])

\* jugantor parse_article, when it does not raise: None, or the article dict
jugantor_parse_article(url, page) ==
    IF ~page.fetched THEN None
    ELSE Some([url |-> url, title |-> page.title,
               category |-> infer_category_from_url(url), body |-> page.body])

\* mutant: no truncation
Uncapped(entries, max_articles) == entries

\* "if len(entries) > max_articles: entries = entries[:max_articles]"
Cap(entries, max_articles) ==
    IF Len(entries) > max_articles THEN Take(entries, max_articles) ELSE entries

\* scrape_daily_star up to its loop: home-page warm-up, feed, truncation
ScrapeDailyStarCall ==
    /\ s_pc = "idle"
    /\ \E fails \in {0, DefaultRetries}, feed \in ScrapeFeeds,
          max_articles \in {1, ScrapeDailyStarMaxArticles} :
        \E matching \in {FetchLoop(0, DefaultRetries, fails, feed, DateStr(today)).entries} :
        \E entries \in {Cap(matching, max_articles)} :
            /\ s_call' = [matching |-> matching, max_articles |-> max_articles]
            /\ s_entries' = entries
            /\ s_pages' \in [1..Len(entries) -> DailyStarPages]
    /\ s_src' = "dailystar"
    /\ s_pc' = "loop"
    /\ s_i' = 1
    /\ s_events' = <<>>
    /\ s_result' = <<>>
    /\ UNCHANGED OutsideScrape

\* scrape_jugantor up to its loop: sitemap, date filter, truncation
ScrapeJugantorCall ==
    /\ s_pc = "idle"
    /\ \E net \in {"ok", "ConnectionError"}, feed \in ScrapeFeeds,
          max_articles \in {1, ScrapeJugantorMaxArticles} :
        \E xml \in {fetch_news_sitemap(net, feed)} :
        \E matching \in {IF xml = None \/ Get(xml) = <<>> THEN <<>>
                         ELSE parse_news_sitemap(Get(xml), DateStr(today))} :
        \E entries \in {Cap(matching, max_articles)} :
            /\ s_call' = [matching |-> matching, max_articles |-> max_articles]
            /\ s_entries' = entries
            /\ s_pages' \in [1..Len(entries) -> JugantorPages]
    /\ s_src' = "jugantor"
    /\ s_pc' = "loop"
    /\ s_i' = 1
    /\ s_events' = <<>>
    /\ s_result' = <<>>
    /\ UNCHANGED OutsideScrape

\* one iteration of the loop of scrape_daily_star: "if not art: continue"
\* comes before time.sleep(delay)
DailyStarArticle ==
    /\ s_pc = "loop"
    /\ s_src = "dailystar"
    /\ s_i <= Len(s_entries)
    /\ LET entry == s_entries[s_i]
           art == fetch_article(entry.url, s_pages[s_i])
       IN IF art = None
          THEN /\ s_events' = Append(s_events, "fetch")
               /\ s_result' = s_result
          ELSE /\ s_events' = s_events \o <<"fetch", "sleep">>
               /\ s_result' = Append(s_result,
                                [title |-> IF entry.title # <<>> THEN entry.title
                                           ELSE Get(art).title,
                                 body |-> Get(art).body,
                                 url |-> Get(art).url,
                                 category |-> Get(art).category,
                                 date_published |-> entry.pub_date])
    /\ s_i' = s_i + 1
    /\ UNCHANGED <<s_pc, s_src, s_entries, s_pages, s_call, OutsideScrape>>

\* one iteration of the loop of scrape_jugantor: parse_article is called
\* outside any try; time.sleep(delay) ends every iteration
JugantorArticle ==
    /\ s_pc = "loop"
    /\ s_src = "jugantor"
    /\ s_i <= Len(s_entries)
    /\ LET entry == s_entries[s_i]
           article == jugantor_parse_article(entry.url, s_pages[s_i])
       IN IF s_pages[s_i].raises
          THEN /\ s_pc' = "raised"
               /\ s_events' = Append(s_events, "fetch")
               /\ s_result' = s_result
          ELSE /\ s_pc' = "loop"
               /\ s_events' = s_events \o <<"fetch", "sleep">>
               /\ s_result' = IF article # None /\ ~Falsy(Get(article).title)
                              THEN Append(s_result,
                                          [Get(article) EXCEPT !.title = Get(@),
                                                               !.category = entry.category])
                              ELSE s_result
    /\ s_i' = s_i + 1
    /\ UNCHANGED <<s_src, s_entries, s_pages, s_call, OutsideScrape>>

\* the loop is over: return results
ScrapeReturn ==
    /\ s_pc = "loop"
    /\ s_i > Len(s_entries)
    /\ s_pc' = "done"
    /\ UNCHANGED <<s_src, s_entries, s_pages, s_i, s_events, s_result, s_call, OutsideScrape>>

ScrapeFullNext ==
    \/ ScrapeDailyStarCall
    \/ ScrapeJugantorCall
    \/ DailyStarArticle
    \/ JugantorArticle
    \/ ScrapeReturn

SpecFull == Init /\ [][ScrapeFullNext]_vars

----------------------------------------------------------------------------
(* The feed or sitemap download of each adapter, when requests fail *)

\* prothomalo fetch_sitemap_urls: one request; [] when it fails
fetch_sitemap_urls(net, locs) == IF net # "ok" THEN <<>> ELSE locs

\* the servers' behaviour: the first fails requests fail with exc, the later
\* ones succeed and deliver the feed
FeedInputs(feeds) ==
    {[fails |-> n, exc |-> x, feed |-> f] :
        n \in 0..DefaultRetries, x \in RequestFailures, f \in feeds}

\* the outcome of the first request
FirstOutcome(in) == IF in.fails = 0 THEN "ok" ELSE in.exc

\* fetch_googlenews_entries with the default retries
FeedDailyStar ==
    /\ x_fn = "none"
    /\ \E in \in FeedInputs(ScrapeFeeds) :
        /\ x_page' = Some(in)
        /\ x_body' = Some(LET got == FetchLoop(0, DefaultRetries, in.fails, in.feed,
                                              DateStr(today))
                          IN [requests |-> got.requests, result |-> got.entries])
    /\ x_fn' = "fetch_googlenews_entries"
    /\ UNCHANGED OutsideExtract

\* jugantor fetch_news_sitemap: one requests.get
FeedJugantor ==
    /\ x_fn = "none"
    /\ \E in \in FeedInputs(ScrapeFeeds) :
        /\ x_page' = Some(in)
        /\ x_body' = Some([requests |-> 1,
                           result |-> fetch_news_sitemap(FirstOutcome(in), in.feed)])
    /\ x_fn' = "fetch_news_sitemap"
    /\ UNCHANGED OutsideExtract

\* prothomalo fetch_sitemap_urls: one requests.get
FeedProthomAlo ==
    /\ x_fn = "none"
    /\ \E in \in FeedInputs(SeqsUpTo(PaUrls, MaxFeed)) :
        /\ x_page' = Some(in)
        /\ x_body' = Some([requests |-> 1,
                           result |-> fetch_sitemap_urls(FirstOutcome(in), in.feed)])
    /\ x_fn' = "fetch_sitemap_urls"
    /\ UNCHANGED OutsideExtract

\* dhaka_tribune get_latest_article_urls: one requests.get
FeedDhakaTribune ==
    /\ x_fn = "none"
    /\ \E in \in FeedInputs(SeqsUpTo(DtUrls, MaxFeed)) :
        /\ x_page' = Some(in)
        /\ x_body' = Some([requests |-> 1,
                           result |-> get_latest_article_urls(FirstOutcome(in), in.feed,
                                                              DhakaLimit)])
    /\ x_fn' = "get_latest_article_urls"
    /\ UNCHANGED OutsideExtract

FeedNext ==
    \/ FeedDailyStar
    \/ FeedJugantor
    \/ FeedProthomAlo
    \/ FeedDhakaTribune

SpecFeed == Init /\ [][FeedNext]_vars

----------------------------------------------------------------------------
(* Parsing of a downloaded feed or sitemap, well-formed or not *)

\* a downloaded Dhaka Tribune sitemap: ET.fromstring parses it or raises
\* ParseError
DhakaDocuments ==
    {[parses |-> ok, locs |-> ls] : ok \in BOOLEAN, ls \in SeqsUpTo(DtUrls, MaxFeed)}

\* the parsing loop of fetch_googlenews_entries on a downloaded feed
ParseDailyStarFeed ==
    /\ x_fn = "none"
    /\ \E feed \in Feeds, d \in Days :
        /\ x_page' = Some([feed |-> feed, prefix |-> DateStr(d)])
        /\ x_body' = Some(FetchLoop(0, DefaultRetries, 0, feed, DateStr(d)).entries)
    /\ x_fn' = "fetch_googlenews_entries"
    /\ UNCHANGED OutsideExtract

\* get_latest_article_urls on a downloaded sitemap
ParseDhakaSitemap ==
    /\ x_fn = "none"
    /\ \E doc \in DhakaDocuments :
        /\ x_page' = Some(doc)
        /\ x_body' = Some(get_latest_article_urls(IF doc.parses THEN "ok" ELSE "ParseError",
                                                  doc.locs, DhakaLimit))
    /\ x_fn' = "get_latest_article_urls"
    /\ UNCHANGED OutsideExtract

ParseNext == ParseDailyStarFeed \/ ParseDhakaSitemap

SpecParse == Init /\ [][ParseNext]_vars

----------------------------------------------------------------------------
(* dhaka_tribune_scraper.py: get_latest_article_urls with any limit *)

\* the limit argument: zero, less than, equal to and more than the number of
\* URLs a sitemap lists
LimitValues == {0, 1, MaxFeed, DhakaLimit}

\* get_latest_article_urls(limit) on a sitemap that is unreachable, does not
\* parse, or lists locs
LatestUrlsCall ==
    /\ x_fn = "none"
    /\ \E net \in {"ok", "ConnectionError", "ParseError"},
          locs \in SeqsUpTo(DtUrls, MaxFeed), limit \in LimitValues :
        /\ x_page' = Some([net |-> net, locs |-> locs, limit |-> limit])
        /\ x_body' = Some(get_latest_article_urls(net, locs, limit))
    /\ x_fn' = "get_latest_article_urls(limit)"
    /\ UNCHANGED OutsideExtract

SpecLimit == Init /\ [][LatestUrlsCall]_vars

----------------------------------------------------------------------------
(* The four site adapters: persistence *)

\* mutant: entries are numbered from 0
EntryNumberFromZero(index) == index

\* enumerate(headlines, 1): the number written for the entry at a 0-based index
EntryNumber(index) == index + 1

\* the header block and the numbered entries of a headline file
HeadlineFile(header, day, time, headlines, entries) ==
    [source |-> header,
     date |-> day,
     total |-> Len(headlines),
     scraped_at |-> [day |-> day, time |-> time],
     entries |-> entries]

Field(label, value) == [label |-> label, value |-> value]

\* jugantor_scraper.save_headlines_to_file
JugantorFile(headlines, day, time) ==
    HeadlineFile("JUGANTOR HEADLINES", day, time, headlines,
        [i \in 1..Len(headlines) |->
            [num |-> EntryNumber(i - 1), title |-> headlines[i].title,
             fields |-> <<Field("URL", headlines[i].url),
                          Field("Category", <<headlines[i].category>>)>>]])

\* daily_star_scraper.save_headlines_to_file
DailyStarFile(headlines, day, time) ==
    HeadlineFile("THE DAILY STAR HEADLINES", day, time, headlines,
        [i \in 1..Len(headlines) |->
            [num |-> EntryNumber(i - 1), title |-> headlines[i].title,
             fields |-> <<Field("URL", headlines[i].url),
                          Field("Category", <<headlines[i].category>>)>>]])

\* prothomalo_scraper.save_headlines_to_file
ProthomAloFile(headlines, day, time) ==
    HeadlineFile("PROTHOM ALO HEADLINES", day, time, headlines,
        [i \in 1..Len(headlines) |->
            [num |-> EntryNumber(i - 1), title |-> headlines[i].title,
             fields |-> <<Field("URL", headlines[i].url),
                          Field("Section", <<headlines[i].section>>)>>]])

\* dhaka_tribune_scraper.save_headlines_to_file
DhakaHeadlinesFile(headlines, day, time) ==
    HeadlineFile("DHAKA TRIBUNE HEADLINES", day, time, headlines,
        [i \in 1..Len(headlines) |->
            [num |-> EntryNumber(i - 1), title |-> headlines[i].title,
             fields |-> <<Field("URL", headlines[i].url),
                          Field("Author", headlines[i].author),
                          Field("Published", headlines[i].publication_date)>>]])

\* dhaka_tribune_scraper.write_txt: Author and Published only when present
DhakaArticlesFile(articles, day, time) ==
    HeadlineFile("DHAKA TRIBUNE HEADLINES", day, time, articles,
        [i \in 1..Len(articles) |->
            [num |-> EntryNumber(i - 1), title |-> articles[i].title,
             fields |-> <<Field("URL", articles[i].url)>>
                        \o (IF articles[i].author # None /\ Get(articles[i].author) # <<>>
                            THEN <<Field("Author", Get(articles[i].author))>> ELSE <<>>)
                        \o (IF articles[i].publication_date # None
                               /\ Get(articles[i].publication_date) # <<>>
                            THEN <<Field("Published", Get(articles[i].publication_date))>>
                            ELSE <<>>)]])

\* what the file system does to a save: os.makedirs raises (outside the try),
\* open or write raises (inside the try, swallowed), or all succeed
FsOutcomes == {"ok", "makedirs_fails", "open_fails"}

\* mutant: the file is opened in append mode
OpenAppend(old, content) ==
    IF old = None THEN Some(content)
    ELSE Some([content EXCEPT !.entries = Get(old).entries \o content.entries])

\* open(filename, "w") and the writes: the old content is discarded
OpenWrite(old, content) == Some(content)

\* the save function each writer name stands for
Writers == {"jugantor", "dailystar", "prothomalo", "write_txt", "dhaka_headlines"}

\* the content a writer renders for a headline list at a day and time
Render(writer, headlines, day, time) ==
    CASE writer = "jugantor" -> JugantorFile(headlines, day, time)
      [] writer = "dailystar" -> DailyStarFile(headlines, day, time)
      [] writer = "prothomalo" -> ProthomAloFile(headlines, day, time)
      [] writer = "write_txt" -> DhakaArticlesFile(headlines, day, time)
      [] writer = "dhaka_headlines" -> DhakaHeadlinesFile(headlines, day, time)

\* mutant: every adapter writes the file of one source
SharedFileName(src) == "jugantor"

\* the source prefix of the file name a save function builds
HeadlineFileName(src) == src

\* a run of a scraper: the collection result run = [requests, pages,
\* headlines] (requests issued in all, of which pages are for article pages),
\* whether the save call is reached, the save function, and what the file
\* system does to it; last records the run
Persist(src, writer, run, saves, fs) ==
    /\ news' = IF saves /\ fs = "ok"
               THEN [news EXCEPT ![HeadlineFileName(src)][today] =
                        OpenWrite(@, Render(writer, run.headlines, today, clock))]
               ELSE news
    /\ last' = [src |-> src, writer |-> writer, day |-> today, time |-> clock,
                collected |-> run.headlines, requests |-> run.requests,
                pages |-> run.pages,
                saves |-> saves,
                fs |-> IF saves THEN fs ELSE "ok",
                wrote |-> saves /\ fs = "ok",
                raised |-> saves /\ fs = "makedirs_fails",
                before |-> news[src][today]]

\* the sitemaps of today and of the days before: empty before k days ago,
\* then one list, then another
Sitemaps(k, l1, l2) ==
    [d \in 0..MaxDaysFallback |-> IF d < k THEN <<>> ELSE IF d = k THEN l1 ELSE l2]

\* the upstream data a single adapter's run may meet: request outcomes, feeds,
\* leading failed attempts, sitemap lists and per-article outcomes
FullUpstream ==
    [nets |-> NetOutcomes,
     feeds |-> SeqsUpTo(WellFormedBlocks, MaxFeed),
     fails |-> 0..DefaultRetries,
     delays |-> 0..(MaxDaysFallback + 1),
     palists |-> SeqsUpTo(PaUrls, MaxFeed),
     older |-> {<<>>, << <<"entertainment", "a2">> >>},
     titles |-> {[u \in PaUrls |-> TRUE], [u \in PaUrls |-> FALSE],
                 [u \in PaUrls |-> u[1] # "news"]},
     dtlists |-> SeqsUpTo(DtUrls, MaxFeed),
     kinds |-> {[u \in DtUrls |-> IF u[1] = "news" THEN k1 ELSE k2] :
                   k1 \in ArticleKinds, k2 \in {"full", "fail"}}]

\* the upstream data of the aggregator runs: each source is unreachable,
\* empty, or lists one article
SampleUpstream ==
    [nets |-> {"ok", "ConnectionError"},
     feeds |-> {<<>>, <<[loc |-> Some(<<"news", "sports", "a1">>),
                        title |-> Some(RawTitle(<<"news", "sports", "a1">>)),
                        pub |-> Some(DateStr(18) \o <<"T">>)]>>},
     fails |-> {0},
     delays |-> {0},
     palists |-> {<<>>, << <<"news", "sports", "a1">> >>},
     older |-> {<<>>},
     titles |-> {[u \in PaUrls |-> TRUE]},
     dtlists |-> {<<>>, << <<"news", "sports", "a1">> >>},
     kinds |-> {[u \in DtUrls |-> "full"]}]

\* jugantor_scraper.main
jugantor_main(up) ==
    \E net \in up.nets, feed \in up.feeds, fs \in FsOutcomes :
        \E run \in {get_jugantor_headlines(net, feed, today, JugantorMaxArticles)} :
            Persist("jugantor", "jugantor", run, TRUE, fs)

\* daily_star_scraper.main
daily_star_main(up) ==
    \E fails \in up.fails, feed \in up.feeds, fs \in FsOutcomes :
        \E run \in {get_dailystar_headlines(fails, feed, today, DailyStarMaxArticles,
                                            MaxDaysFallback)} :
            Persist("dailystar", "dailystar", run, TRUE, fs)

\* prothomalo_scraper.main
prothomalo_main(up) ==
    \E k \in up.delays, l1 \in up.palists, l2 \in up.older, titleOk \in up.titles,
       fs \in FsOutcomes :
        \E sitemaps \in {Sitemaps(k, l1, l2)} :
        \E run \in {get_prothomalo_headlines(sitemaps, titleOk, ProthomAloPerSection)} :
            Persist("prothomalo", "prothomalo", run, TRUE, fs)

\* dhaka_tribune_scraper.main: "if not urls: return 1" comes before write_txt
dhaka_tribune_main(up) ==
    \E net \in up.nets, locs \in up.dtlists, kinds \in up.kinds, fs \in FsOutcomes :
        \E urls \in {get_latest_article_urls(net, locs, DhakaLimit)} :
        \E articles \in {DhakaArticles(urls, kinds)} :
            Persist("dhaka_tribune", "write_txt",
                    [requests |-> 1 + Len(urls), pages |-> Len(urls),
                     headlines |-> articles],
                    urls # <<>>, fs)

\* the library path save_headlines_to_file(get_dhaka_tribune_headlines())
dhaka_tribune_headlines_save(up) ==
    \E net \in up.nets, locs \in up.dtlists, kinds \in up.kinds, fs \in FsOutcomes :
        \E run \in {get_dhaka_tribune_headlines(net, locs, kinds, DhakaLimit)} :
            Persist("dhaka_tribune", "dhaka_headlines", run, TRUE, fs)

----------------------------------------------------------------------------
(* The day fallback of get_dailystar_headlines and get_prothomalo_headlines *)

HeadlinesMaxArticles == 5

\* the arguments and the upstream of a get_dailystar_headlines call: the
\* feed holds entries of several days; the first fails requests of every
\* download fail
DailyStarFallbackInputs ==
    {[fails |-> n, feed |-> f, day |-> d, max_articles |-> m, max_days_fallback |-> k] :
        n \in {0, DefaultRetries - 1, DefaultRetries},
        f \in SeqsUpTo(WellFormedBlocks, MaxFeed),
        d \in Days,
        m \in {1, HeadlinesMaxArticles},
        k \in {0, 1, MaxDaysFallback}}

\* the arguments and the upstream of a get_prothomalo_headlines call
ProthomAloFallbackInputs ==
    {[sitemaps |-> Sitemaps(d, l1, l2), titleOk |-> t, max_days_fallback |-> k] :
        d \in 0..(MaxDaysFallback + 1),
        l1 \in SeqsUpTo(PaUrls, MaxFeed),
        l2 \in {<<>>, << <<"entertainment", "a2">> >>},
        t \in {[u \in PaUrls |-> TRUE], [u \in PaUrls |-> FALSE],
               [u \in PaUrls |-> u[1] # "news"]},
        k \in {0, 1, MaxDaysFallback}}

\* get_dailystar_headlines is called
FallbackDailyStar ==
    /\ x_fn = "none"
    /\ \E in \in DailyStarFallbackInputs :
        /\ x_page' = Some(in)
        /\ x_body' = Some(get_dailystar_headlines(in.fails, in.feed, in.day,
                                                  in.max_articles, in.max_days_fallback))
    /\ x_fn' = "dailystar_fallback"
    /\ UNCHANGED OutsideExtract

\* get_prothomalo_headlines is called with the default sections
FallbackProthomAlo ==
    /\ x_fn = "none"
    /\ \E in \in ProthomAloFallbackInputs :
        /\ x_page' = Some(in)
        /\ x_body' = Some(ProthomAloFallback(0, in.sitemaps, in.titleOk, DefaultSections,
                                             ProthomAloPerSection, in.max_days_fallback))
    /\ x_fn' = "prothomalo_fallback"
    /\ UNCHANGED OutsideExtract

FallbackNext == FallbackDailyStar \/ FallbackProthomAlo

SpecFallback == Init /\ [][FallbackNext]_vars

----------------------------------------------------------------------------
(* The four adapters run as concurrent processes *)

\* what an adapter holds between its collection and its save
Collected(writer, headlines, saves) ==
    [writer |-> writer, headlines |-> headlines, saves |-> saves, fs |-> "ok", time |-> 0]

\* the collection of src ends with value got
CollectStep(src, got) ==
    /\ p_pc' = [p_pc EXCEPT ![src] = "collected"]
    /\ p_run' = [p_run EXCEPT ![src] = got]
    /\ UNCHANGED <<folderVars, OutsideProc>>

\* jugantor main: get_jugantor_headlines
CollectJugantor ==
    /\ p_pc["jugantor"] = "idle"
    /\ \E net \in SampleUpstream.nets, feed \in SampleUpstream.feeds :
        CollectStep("jugantor",
            Collected("jugantor",
                      get_jugantor_headlines(net, feed, today, JugantorMaxArticles).headlines,
                      TRUE))

\* daily_star main: get_dailystar_headlines
CollectDailyStar ==
    /\ p_pc["dailystar"] = "idle"
    /\ \E fails \in SampleUpstream.fails, feed \in SampleUpstream.feeds :
        CollectStep("dailystar",
            Collected("dailystar",
                      get_dailystar_headlines(fails, feed, today, DailyStarMaxArticles,
                                              MaxDaysFallback).headlines,
                      TRUE))

\* prothomalo main: get_prothomalo_headlines
CollectProthomAlo ==
    /\ p_pc["prothomalo"] = "idle"
    /\ \E l1 \in SampleUpstream.palists, titleOk \in SampleUpstream.titles :
        CollectStep("prothomalo",
            Collected("prothomalo",
                      get_prothomalo_headlines(Sitemaps(0, l1, <<>>), titleOk,
                                               ProthomAloPerSection).headlines,
                      TRUE))

\* dhaka_tribune main: the URL list and the article loop
CollectDhakaTribune ==
    /\ p_pc["dhaka_tribune"] = "idle"
    /\ \E net \in SampleUpstream.nets, locs \in SampleUpstream.dtlists,
          kinds \in SampleUpstream.kinds :
        \E urls \in {get_latest_article_urls(net, locs, DhakaLimit)} :
            CollectStep("dhaka_tribune",
                Collected("write_txt", DhakaArticles(urls, kinds), urls # <<>>))

\* the save call of an adapter that has collected (or the return without it)
SaveHeadlines ==
    \E src \in Sources :
        /\ p_pc[src] = "collected"
        /\ \E fs \in FsOutcomes :
            /\ Persist(src, p_run[src].writer,
                       [requests |-> 0, pages |-> 0, headlines |-> p_run[src].headlines],
                       p_run[src].saves, fs)
            /\ p_run' = [p_run EXCEPT ![src].fs = fs, ![src].time = clock]
        /\ p_pc' = [p_pc EXCEPT ![src] = "done"]
        /\ UNCHANGED <<today, clock, runs, OutsideProc>>

ConcurrentNext ==
    \/ CollectJugantor
    \/ CollectDailyStar
    \/ CollectProthomAlo
    \/ CollectDhakaTribune
    \/ SaveHeadlines

SpecConcurrent == Init /\ [][ConcurrentNext]_vars

----------------------------------------------------------------------------
(* prothomalo_scraper.py: get_prothomalo_headlines on a sitemap without repeats *)

\* the URLs of the sitemap of the day; the path of the last one holds the
\* slugs of two of the default sections
KeyUrls == PaUrls \cup {<<"sports", "entertainment", "a4">>}

\* the sitemaps that list each URL once
UniqueLists ==
    {l \in SeqsUpTo(KeyUrls, MaxFeed) : \A i, j \in DOMAIN l : i # j => l[i] # l[j]}

\* get_prothomalo_headlines() with the default arguments
UniqueSitemapCall ==
    /\ x_fn = "none"
    /\ \E list \in UniqueLists, titleOk \in [KeyUrls -> BOOLEAN] :
        /\ x_page' = Some([list |-> list, titleOk |-> titleOk])
        /\ x_body' = Some(get_prothomalo_headlines(Sitemaps(0, list, <<>>), titleOk,
                                                   ProthomAloPerSection).headlines)
    /\ x_fn' = "get_prothomalo_headlines"
    /\ UNCHANGED OutsideExtract

SpecKey == Init /\ [][UniqueSitemapCall]_vars

----------------------------------------------------------------------------
(* agent.py: news_list_tool *)

\* run_all_scrapers: the order of the calls
ScraperOrder == <<"jugantor", "dailystar", "prothomalo", "dhaka_tribune">>

\* mutant: only the sources whose file is missing are scraped
run_missing_scrapers(seen) == SelectSeq(ScraperOrder, LAMBDA s : s \notin seen)

\* run_all_scrapers, whatever files the check saw
run_all_scrapers(seen) == ScraperOrder

\* check_todays_news_files: the sources whose file for today exists
check_todays_news_files == {s \in Sources : news[s][today] # None}

\* mutant: the scrapers run whatever the check says
AlwaysScrape(seen) == TRUE

\* "if not check_todays_news_files()"
ShouldScrape(seen) == seen # Sources

\* news_list_tool is called: the check
ToolCall ==
    /\ t_pc \in {"idle", "done", "raised"}
    /\ t_calls < MaxCalls
    /\ t_calls' = t_calls + 1
    /\ t_seen' = check_todays_news_files
    /\ t_pc' = IF ShouldScrape(t_seen') THEN "scrape" ELSE "load"
    /\ t_idx' = 1
    /\ t_ran' = <<>>
    /\ t_requests' = 0
    /\ t_loaded' = None
    /\ UNCHANGED <<folderVars, OutsideTool>>

\* run_all_scrapers has reached the call of a source's main
ScraperTurn(src) ==
    /\ t_pc = "scrape"
    /\ t_idx \in DOMAIN run_all_scrapers(t_seen)
    /\ run_all_scrapers(t_seen)[t_idx] = src

\* the main has run; an exception it raises ends the tool call
ScraperStep(src) ==
    /\ t_ran' = Append(t_ran, src)
    /\ t_requests' = t_requests + last'.requests
    /\ t_idx' = t_idx + 1
    /\ t_pc' = IF last'.raised THEN "raised"
               ELSE IF t_idx = Len(run_all_scrapers(t_seen)) THEN "load"
               ELSE "scrape"
    /\ UNCHANGED <<today, clock, runs, t_calls, t_seen, t_loaded, OutsideTool>>

RunJugantor ==
    /\ ScraperTurn("jugantor")
    /\ jugantor_main(SampleUpstream)
    /\ ScraperStep("jugantor")

RunDailyStar ==
    /\ ScraperTurn("dailystar")
    /\ daily_star_main(SampleUpstream)
    /\ ScraperStep("dailystar")

RunProthomAlo ==
    /\ ScraperTurn("prothomalo")
    /\ prothomalo_main(SampleUpstream)
    /\ ScraperStep("prothomalo")

RunDhakaTribune ==
    /\ ScraperTurn("dhaka_tribune")
    /\ dhaka_tribune_main(SampleUpstream)
    /\ ScraperStep("dhaka_tribune")

\* load_news_articles: every .txt file of the news folder
load_news_articles ==
    {<<s, d>> \in Sources \X Days : news[s][d] # None}

ToolLoad ==
    /\ t_pc = "load"
    /\ t_loaded' = Some(load_news_articles)
    /\ t_pc' = "loaded"
    /\ UNCHANGED <<folderVars, t_calls, t_idx, t_seen, t_ran, t_requests, OutsideTool>>

\* the prompt is formatted and the model invoked: an answer or an exception
ToolAnswer ==
    /\ t_pc = "loaded"
    /\ t_pc' \in {"done", "raised"}
    /\ UNCHANGED <<folderVars, t_calls, t_idx, t_seen, t_ran, t_requests, t_loaded, OutsideTool>>

\* midnight passes
NextDay ==
    /\ today + 1 \in Days
    /\ today' = today + 1
    /\ UNCHANGED <<clock, news, last, runs, toolVars, OutsideTool>>

Next ==
    \/ ToolCall
    \/ RunJugantor
    \/ RunDailyStar
    \/ RunProthomAlo
    \/ RunDhakaTribune
    \/ ToolLoad
    \/ ToolAnswer
    \/ NextDay

Spec == Init /\ [][Next]_vars

----------------------------------------------------------------------------
(* The adapters run from their command lines *)

\* the command line of a source may run: the runs of a behaviour are those of
\* one source
CliStart(src) ==
    /\ runs < MaxRuns
    /\ last.src \in {"none", src}

\* a run takes time
CliDone ==
    /\ runs' = runs + 1
    /\ clock' = clock + 1
    /\ UNCHANGED <<today, toolVars, OutsideTool>>

JugantorCli ==
    /\ CliStart("jugantor")
    /\ jugantor_main(FullUpstream)
    /\ CliDone

DailyStarCli ==
    /\ CliStart("dailystar")
    /\ daily_star_main(FullUpstream)
    /\ CliDone

ProthomAloCli ==
    /\ CliStart("prothomalo")
    /\ prothomalo_main(FullUpstream)
    /\ CliDone

DhakaTribuneCli ==
    /\ CliStart("dhaka_tribune")
    /\ dhaka_tribune_main(FullUpstream)
    /\ CliDone

DhakaTribuneHeadlines ==
    /\ CliStart("dhaka_tribune")
    /\ dhaka_tribune_headlines_save(FullUpstream)
    /\ CliDone

\* midnight passes
Midnight ==
    /\ today + 1 \in Days
    /\ today' = today + 1
    /\ clock' = 0
    /\ UNCHANGED <<news, last, runs, toolVars, OutsideTool>>

ScraperNext ==
    \/ JugantorCli
    \/ DailyStarCli
    \/ ProthomAloCli
    \/ DhakaTribuneCli
    \/ DhakaTribuneHeadlines
    \/ Midnight

SpecScraper == Init /\ [][ScraperNext]_vars

----------------------------------------------------------------------------
(* Claims about news_list_tool *)

\* C1: when the headline files of all four sources for today exist at the
\* check, news_list_tool calls no scraper: the call runs none of the four
\* mains and issues zero scraping requests, whatever it does afterwards
C1_SkipWhenAllFilesExist ==
    (t_calls > 0 /\ t_seen = Sources) =>
        /\ t_pc # "scrape"
        /\ t_ran = <<>>
        /\ t_requests = 0

\* a call that found all four files has loaded the articles and answered
C1_Witness ==
    /\ t_seen = Sources
    /\ t_pc = "done"
    /\ t_loaded # None
    /\ t_ran = <<>>

IsPrefix(s, t) == Len(s) <= Len(t) /\ s = SubSeq(t, 1, Len(s))

\* C2: when at least one of the four files for today is missing at the check,
\* the scrapers run one after another in the order jugantor, daily_star,
\* prothomalo, dhaka_tribune, whichever file is missing, and the articles are
\* loaded only after all four have run
C2_FullRerunInOrder ==
    /\ IsPrefix(t_ran, ScraperOrder)
    /\ (t_calls > 0 /\ t_seen # Sources /\ t_pc \in {"load", "loaded", "done"}) =>
           t_ran = ScraperOrder
    /\ (t_seen # Sources /\ t_loaded # None) => t_ran = ScraperOrder

\* a call that found some but not all of the files has run all four scrapers
\* and loaded the articles
C2_Witness ==
    /\ t_seen # {}
    /\ t_seen # Sources
    /\ "jugantor" \in t_seen
    /\ t_ran = ScraperOrder
    /\ t_loaded # None

----------------------------------------------------------------------------
(* Claims about the headline files *)

FileOf(s, d) == Get(news[s][d])

\* C3 (as stated): for each of the four sources, a run whose collection yields
\* zero entries, and whose file-system calls succeed, ends with the source's
\* file for that day written with a total of 0 and no entries
C3_EmptyCollectionStillWritten ==
    (last.src # "none" /\ last.collected = <<>> /\ last.fs = "ok") =>
        /\ last.wrote
        /\ news[last.src][last.day] # None
        /\ FileOf(last.src, last.day).total = 0
        /\ FileOf(last.src, last.day).entries = <<>>

\* C4: a run that writes a source's file overwrites it: the content is what the
\* writer renders from the headlines of that run alone (as many entries, the
\* same titles and URLs, nothing of the earlier file), so a run that collects
\* what the earlier file was written from leaves the same file except for the
\* "Scraped at" line
C4_WriteOverwrites ==
    last.wrote =>
        /\ news[last.src][last.day] # None
        /\ LET file == FileOf(last.src, last.day)
           IN /\ file = Render(last.writer, last.collected, last.day, last.time)
              /\ Len(file.entries) = Len(last.collected)
              /\ \A i \in DOMAIN file.entries :
                    /\ file.entries[i].title = last.collected[i].title
                    /\ file.entries[i].fields[1] = Field("URL", last.collected[i].url)
              /\ \A t \in 0..MaxRuns :
                    last.before = Some(Render(last.writer, last.collected, last.day, t)) =>
                        [file EXCEPT !.scraped_at = Get(last.before).scraped_at]
                            = Get(last.before)

\* a run has replaced a longer file of the same day by a shorter one
C4_Witness ==
    /\ last.wrote
    /\ last.before # None
    /\ Len(Get(last.before).entries) > Len(last.collected)
    /\ last.collected # <<>>
    /\ FileOf(last.src, last.day).scraped_at # Get(last.before).scraped_at

StableLabels ==
    {<<"URL", "Category">>, <<"URL", "Category", "Author">>,
     <<"URL", "Category", "Published">>, <<"URL", "Category", "Author", "Published">>}

Labels(entry) == [i \in DOMAIN entry.fields |-> entry.fields[i].label]

\* C6 (as stated): every entry of every source's file carries the labels URL,
\* Category and optionally Author and Published, in this order
C6_StableFieldLabels ==
    \A s \in Sources, d \in Days :
        news[s][d] # None =>
            \A i \in DOMAIN FileOf(s, d).entries :
                Labels(FileOf(s, d).entries[i]) \in StableLabels

----------------------------------------------------------------------------
(* Claims about the feed fetcher and the date filter (SpecFetch) *)

AllFailed(outs) == \A i \in 1..Len(outs) : outs[i] \in RequestFailures

\* C8: in fetch_googlenews_entries every transport error or non-2xx response
\* is caught; the request is re-issued at most retries times, each re-issue
\* comes after a sleep of backoff * 2^attempt (attempt = index of the attempt
\* that just failed, from 0), the loop does not stop while attempts of the
\* budget remain, and when all attempts failed the call returns [] and has
\* not raised.
C8_RetryBackoffNonFatal ==
    /\ f_pc # "raised"
    /\ Len(f_outcomes) >= 1 => Len(f_outcomes) - 1 <= f_retries
    /\ \A k \in 2..Len(f_outcomes) :
         /\ Len(f_sleeps) >= k - 1
         /\ f_sleeps[k - 1] = f_backoff * 2^(k - 2)
    /\ (f_pc = "loop" /\ f_outcomes # <<>>) => Len(f_sleeps) = Len(f_outcomes)
    /\ (f_pc # "idle" /\ AllFailed(f_outcomes) /\ Len(f_outcomes) < f_retries)
          => f_pc = "loop"
    /\ (f_pc = "done" /\ AllFailed(f_outcomes)) => f_result = Some(<<>>)

\* C8 witness: the default budget is exhausted by three failures, after
\* sleeps of backoff and 2 * backoff, and the call has returned [].
C8_Witness ==
    /\ f_pc = "done"
    /\ f_retries = DefaultRetries /\ f_backoff = DefaultBackoff
    /\ Len(f_outcomes) = DefaultRetries /\ AllFailed(f_outcomes)
    /\ f_outcomes[1] \in TransportErrors /\ f_outcomes[2] \in HttpErrors
    /\ f_sleeps = <<DefaultBackoff, 2 * DefaultBackoff>>
    /\ f_result = Some(<<>>)

FailFailOk(outs) ==
    /\ Len(outs) = 3
    /\ outs[1] \in RequestFailures /\ outs[2] \in RequestFailures
    /\ outs[3] = "ok"

\* C9: with the default retry budget, after two failed attempts a third
\* attempt is still made, and when it succeeds the returned entry list is the
\* one an immediate success returns for the same feed: the entries parsed from
\* the feed received, whatever failed before.
C9_RetryThenSameEntries ==
    /\ (f_retries = DefaultRetries /\ Len(f_outcomes) = 2 /\ AllFailed(f_outcomes))
          => f_pc = "loop"
    /\ (f_retries = DefaultRetries /\ f_pc = "done"
        /\ (FailFailOk(f_outcomes) \/ f_outcomes = <<"ok">>))
          => f_result = Some(ParseGoogleNews(Get(f_xml), f_prefix))

\* C9 witness: attempts 1 and 2 failed, attempt 3 succeeded and entries came back.
C9_Witness ==
    /\ f_pc = "done" /\ f_retries = DefaultRetries
    /\ FailFailOk(f_outcomes)
    /\ f_result # None /\ Get(f_result) # <<>>

WellFormed(b) == b.loc # None /\ b.title # None /\ b.pub # None

\* the <loc> texts of a sequence of blocks / the urls of a sequence of entries
LocsOf(bs) == [i \in 1..Len(bs) |-> Get(bs[i].loc)]
UrlsOf(es) == [i \in 1..Len(es) |-> es[i].url]

\* C10 as stated: both date filters return exactly the well-formed entries
\* whose raw publication-date text has the target date as a literal prefix,
\* in document order, duplicates retained.
C10_RawPrefixFilter ==
    /\ (f_pc = "done" /\ f_xml # None) =>
          UrlsOf(Get(f_result)) =
            LocsOf(SelectSeq(Get(f_xml),
                             LAMBDA b : WellFormed(b) /\ StartsWith(Get(b.pub), f_prefix)))
    /\ j_items # None =>
          UrlsOf(Get(j_items)) =
            LocsOf(SelectSeq(Get(j_xml),
                             LAMBDA b : WellFormed(b) /\ StartsWith(Get(b.pub), j_date)))

\* C10 amended: the Daily Star fetcher keeps exactly the well-formed entries
\* whose publication-date text, trimmed of surrounding white space, starts
\* with the target date; Jugantor's parse_news_sitemap keeps exactly those
\* whose untrimmed text starts with it; both in document order, duplicates
\* retained.
C10_PrefixFilter ==
    /\ (f_pc = "done" /\ f_xml # None) =>
          UrlsOf(Get(f_result)) =
            LocsOf(SelectSeq(Get(f_xml),
                             LAMBDA b : /\ WellFormed(b)
                                        /\ StartsWith(Strip(Get(b.pub)), f_prefix)))
    /\ j_items # None =>
          UrlsOf(Get(j_items)) =
            LocsOf(SelectSeq(Get(j_xml),
                             LAMBDA b : WellFormed(b) /\ StartsWith(Get(b.pub), j_date)))

\* C10 witness: the feed lists an entry dated 18T.. and then one dated 19T..;
\* filtered for the 19th exactly the second is returned.
C10_Witness ==
    /\ f_pc = "done" /\ f_prefix = DateStr(19) /\ f_xml # None
    /\ Len(Get(f_xml)) = 2
    /\ WellFormed(Get(f_xml)[1]) /\ Get(Get(f_xml)[1].pub) = DateStr(18) \o <<"T">>
    /\ WellFormed(Get(f_xml)[2]) /\ Get(Get(f_xml)[2].pub) = DateStr(19) \o <<"T">>
    /\ Get(Get(f_xml)[1].loc) # Get(Get(f_xml)[2].loc)
    /\ UrlsOf(Get(f_result)) = <<Get(Get(f_xml)[2].loc)>>

----------------------------------------------------------------------------
(* Claims about the universal article crawler (SpecCrawl) *)

BeginsWithError(str) == StartsWith(str, <<"Error:">>)

UrlMissing == c_url = None \/ c_url = Some("")

\* C7: article_crawler never raises and always returns a string; the string
\* begins with "Error:" exactly when the url is missing or empty or the fetch
\* or the parse failed, so a successful extraction in plain, raw or markdown
\* mode never begins with "Error:"; with a missing url no request is made.
C7_ErrorPrefixIffFailure ==
    /\ c_pc # "raised"
    /\ c_pc = "done" =>
         /\ c_out # None
         /\ BeginsWithError(Get(c_out)) <=> (UrlMissing \/ c_outcome \notin {"ok", "none"})
         /\ UrlMissing => c_requests = 0

\* C7 witness: a page whose title text itself starts with "Error:" was
\* extracted successfully in markdown mode.
C7_Witness ==
    /\ c_pc = "done" /\ c_outcome = "ok"
    /\ c_flags.markdown /\ ~c_flags.raw
    /\ c_out # None
    /\ SubSeq(Get(c_out), 3, 3) = <<"Error:">>

----------------------------------------------------------------------------
(* Claims about body extraction (SpecExtract) *)

\* the words of a text: its tokens that are neither tags nor white space
Words(s) == SelectSeq(s, LAMBDA tok : ~IsTag(tok) /\ ~IsSpace(tok))

\* the top-level JSON-LD items of a page, in document order
RECURSIVE LdItemsOf(_)
LdItemsOf(scripts) ==
    IF scripts = <<>> THEN <<>>
    ELSE (IF Head(scripts).parsed THEN Head(scripts).items ELSE <<>>)
         \o LdItemsOf(Tail(scripts))

\* the words of the articleBody of an item (none if it has no articleBody)
BodyWords(item) ==
    IF item.dict /\ item.articleBody # None
    THEN Words(Join(<<>>, Get(item.articleBody).parts))
    ELSE <<>>

OnlyParagraphs(page) ==
    /\ \A i \in DOMAIN LdItemsOf(page.scripts) : BodyWords(LdItemsOf(page.scripts)[i]) = <<>>
    /\ page.containers = <<>>

\* the texts of the <p> elements of a page, each stripped, in document order
ParagraphTexts(page) == [i \in 1..Len(page.paras) |-> Strip(page.paras[i])]

\* C12 as stated: for a page with no structured-data body and no matching
\* container, the extracted body is exactly the paragraph texts in document
\* order joined by one newline, in the Daily Star extractor and in the
\* universal crawler.
C12_NewlineJoinedParagraphs ==
    (x_fn # "none" /\ OnlyParagraphs(Get(x_page))) =>
        Get(x_body) = Join(<<"\n">>, ParagraphTexts(Get(x_page)))

\* C12, amended: for such a page extract_article_text returns the paragraph
\* texts from the first non-empty one to the last non-empty one, in document
\* order, joined by one newline (the empty string if none has text), and
\* parse_article_html returns all paragraph texts in document order joined by
\* a blank line (two newlines).
C12_ParagraphConcatenation ==
    (x_fn # "none" /\ OnlyParagraphs(Get(x_page))) =>
        LET texts == ParagraphTexts(Get(x_page))
            full == {i \in DOMAIN texts : texts[i] # <<>>}
            lo == CHOOSE i \in full : \A j \in full : i <= j
            hi == CHOOSE i \in full : \A j \in full : i >= j
        IN IF x_fn = "extract_article_text"
           THEN Get(x_body) = IF full = {} THEN <<>>
                              ELSE Join(<<"\n">>, SubSeq(texts, lo, hi))
           ELSE Get(x_body) = Join(<<"\n\n">>, texts)

\* a page of an empty paragraph followed by a paragraph with text, given to
\* extract_article_text: the body is the text alone
C12_Witness ==
    /\ x_fn = "extract_article_text"
    /\ OnlyParagraphs(Get(x_page))
    /\ Get(x_page).paras = << <<>>, <<" ", "t", " ">> >>
    /\ x_body = Some(<<"t">>)

----------------------------------------------------------------------------
(* Claims about category inference (SpecCategory) *)

\* the adapters whose headlines carry a category inferred from the URL
InfersCategory == x_fn \in {"get_dailystar_headlines", "parse_news_sitemap"}

\* C13: category inference.  In the adapters that infer a category, the URL
\* /news/sports/article-1 is given 'sports', the URL /entertainment/article-2
\* is given 'entertainment', and a URL with an empty path is given 'unknown'.
C13_CategoryInference ==
    InfersCategory =>
        /\ x_page = Some(<<"news", "sports", "article-1">>) => x_body = Some("sports")
        /\ x_page = Some(<<"entertainment", "article-2">>) => x_body = Some("entertainment")
        /\ x_page = Some(<<>>) => x_body = Some("unknown")

\* C14: the category of a headline is never missing and never the empty
\* string, whatever the URL.
C14_CategoryNeverEmpty ==
    x_fn \in {"get_dailystar_headlines", "parse_news_sitemap", "_build_results",
              "get_dhaka_tribune_headlines"} =>
        x_body # None /\ Get(x_body) # ""

----------------------------------------------------------------------------
(* Claims about the cost of headline collection (SpecScraper) *)

\* the save functions fed by a headline collection (write_txt is fed by the
\* article loop of Dhaka Tribune's main)
HeadlineCollectors == {"jugantor", "dailystar", "prothomalo", "dhaka_headlines"}

\* C15: headline collection is cheap.  A headline collection of any adapter
\* issues requests for the feed or sitemap (and the home-page warm-up) only:
\* none of its requests is for an article page.
C15_HeadlinesFeedOnly ==
    last.writer \in HeadlineCollectors => last.pages = 0

----------------------------------------------------------------------------
(* Claims about full-article scraping (SpecFull) *)

\* C16: the politeness delay.  In the event sequence of a run of
\* scrape_daily_star or scrape_jugantor, an article request that is followed
\* by anything is followed by a sleep: no two article requests are adjacent.
C16_SleepBetweenFetches ==
    \A k \in 1..(Len(s_events) - 1) :
        s_events[k] = "fetch" => s_events[k + 1] = "sleep"

\* the page of an entry is a failure: the request fails, the extraction
\* raises, or it ends without a title or without a body
FailedPage(page) ==
    ~page.fetched \/ page.raises \/ Falsy(page.title) \/ Falsy(page.body)

\* the URLs of a list of entries or articles
ScrapedUrls(list) == [k \in 1..Len(list) |-> list[k].url]

\* the URLs of the entries whose page is not a failure, in feed order
GoodUrls ==
    LET idx == SelectSeq([k \in 1..Len(s_entries) |-> k],
                         LAMBDA k : ~FailedPage(s_pages[k]))
    IN [k \in 1..Len(idx) |-> s_entries[idx[k]].url]

\* C17: per-article isolation.  A run never raises; when it returns, every
\* entry has been requested and the articles that did not fail are all in
\* the result, in feed order.
C17_FailuresIsolated ==
    /\ s_pc # "raised"
    /\ s_pc = "done" =>
        /\ Len(SelectSeq(s_events, LAMBDA ev : ev = "fetch")) = Len(s_entries)
        /\ SelectSeq(ScrapedUrls(s_result), LAMBDA u : u \in Range(GoodUrls)) = GoodUrls

\* C18: no article of the result has a missing or empty body.
C18_NoEmptyBody ==
    \A k \in DOMAIN s_result : ~Falsy(s_result[k].body)

----------------------------------------------------------------------------
(* Claims about failures: the file system (Spec) and the feeds (SpecFeed) *)

\* C19: a file-system failure in a save function (os.makedirs, open, write)
\* never raises out of it: no scraper main ends with an exception, so a call
\* of news_list_tool that scrapes is never cut short before the fourth main.
C19_FsFailureNonFatal ==
    /\ last.fs # "ok" => ~last.raised
    /\ t_pc = "raised" => t_ran \in {<<>>, ScraperOrder}

\* the feed download functions of the four adapters
FeedFunctions ==
    {"fetch_googlenews_entries", "fetch_news_sitemap", "fetch_sitemap_urls",
     "get_latest_article_urls"}

\* C20: in every adapter a feed or sitemap request that fails is retried:
\* when the first request fails the adapter issues at least one more, and it
\* never issues more than a bounded number.
C20_FeedRetried ==
    x_fn \in FeedFunctions =>
        /\ Get(x_page).fails > 0 => Get(x_body).requests > 1
        /\ Get(x_body).requests <= DefaultRetries + 1

----------------------------------------------------------------------------
(* Claims about the day fallback (SpecFallback) *)

\* the feed entries dated delta days before the day of the call, in feed order
EntriesOfDay(in, delta) ==
    SelectSeq(in.feed, LAMBDA b : DailyStarDateMatch(Get(b.pub), DateStr(in.day - delta)))

\* the deltas of the fallback window whose day has an entry in the feed
DaysWithEntries(in) ==
    {delta \in 0..in.max_days_fallback : EntriesOfDay(in, delta) # <<>>}

\* 0, 1, ..., n as a sequence
UpTo(n) == [k \in 1..(n + 1) |-> k - 1]

\* C21: the day fallback of get_dailystar_headlines.  When the feed can be
\* downloaded, the result holds the entries of the most recent day of the
\* window that has an entry, and of that day only, in feed order and
\* truncated to max_articles; the days asked are today back to that day and
\* none earlier; the result is empty only if no day of the window has an
\* entry, and then every day of the window was asked.
C21_MostRecentDayOnly ==
    (x_fn = "dailystar_fallback" /\ Get(x_page).fails < DefaultRetries) =>
        LET in == Get(x_page)
            out == Get(x_body)
            hits == DaysWithEntries(in)
            chosen == CHOOSE d \in hits : \A e \in hits : d <= e
        IN IF hits = {}
           THEN out.headlines = <<>> /\ out.asked = UpTo(in.max_days_fallback)
           ELSE /\ UrlsOf(out.headlines) =
                       Take(LocsOf(EntriesOfDay(in, chosen)), in.max_articles)
                /\ out.headlines # <<>>
                /\ out.asked = UpTo(chosen)

\* today has no entry, yesterday has one, and the feed came after a retry
C21_Witness ==
    /\ x_fn = "dailystar_fallback"
    /\ Get(x_page).fails = DefaultRetries - 1
    /\ Get(x_page).max_days_fallback = MaxDaysFallback
    /\ EntriesOfDay(Get(x_page), 0) = <<>>
    /\ Len(EntriesOfDay(Get(x_page), 1)) = 2
    /\ Get(x_page).max_articles = 1
    /\ Len(Get(x_body).headlines) = 1
    /\ Get(x_body).asked = <<0, 1>>

\* C22: the day fallback of get_prothomalo_headlines stops at the first day
\* of the window whose sitemap lists a URL: the sitemaps asked are those of
\* today back to that day, and none earlier (all of the window if no day
\* lists a URL).
C22_StopsAtFirstDayWithUrls ==
    x_fn = "prothomalo_fallback" =>
        LET in == Get(x_page)
            hits == {d \in 0..in.max_days_fallback : in.sitemaps[d] # <<>>}
            first == CHOOSE d \in hits : \A e \in hits : d <= e
        IN Get(x_body).asked = IF hits = {} THEN UpTo(in.max_days_fallback)
                               ELSE UpTo(first)

----------------------------------------------------------------------------
(* Claims about the container tier and the title chain (SpecExtract) *)

\* no JSON-LD articleBody of the page has text
NoStructuredBody(page) ==
    \A i \in DOMAIN LdItemsOf(page.scripts) : BodyWords(LdItemsOf(page.scripts)[i]) = <<>>

\* C23: the container tier.  For a page without a structured-data body, when
\* the greatest text length among the matching containers exceeds 200 the
\* body is the text of a container of that greatest length; when it is 200 or
\* less (or no container matches) the body is the paragraph fallback.
C23_LongestContainerAboveThreshold ==
    (x_fn = "extract_article_text" /\ NoStructuredBody(Get(x_page))) =>
        LET page == Get(x_page)
            lens == {page.containers[i].len : i \in DOMAIN page.containers} \cup {0}
            longest == CHOOSE n \in lens : \A m \in lens : n >= m
        IN IF longest > 200
           THEN \E i \in DOMAIN page.containers :
                    /\ page.containers[i].len = longest
                    /\ Get(x_body) = page.containers[i].text
           ELSE Get(x_body) = extract_article_text([page EXCEPT !.containers = <<>>])

\* the best container has exactly 200 characters: the paragraphs are returned
C23_Witness ==
    /\ x_fn = "extract_article_text"
    /\ NoStructuredBody(Get(x_page))
    /\ Len(Get(x_page).containers) = 2
    /\ Get(x_page).containers[1].len = 150
    /\ Get(x_page).containers[2].len = 200
    /\ Get(x_page).paras = << <<"t">> >>
    /\ x_body = Some(<<"t">>)

\* the candidates of the title chain, in the order of the chain
TitleChain(page) == page.headlines \o <<page.og, page.title, page.h1>>

\* C24: the title chain.  extract_title_from_html returns the first of the
\* structured-data headline, the Open-Graph title, the <title> text and the
\* first <h1> text that is non-empty after trimming, trimmed; it returns None
\* only when none is, and never the empty string.
C24_FirstNonEmptyTitle ==
    x_fn = "extract_title_from_html" =>
        LET chain == TitleChain(Get(x_page))
            full == {i \in DOMAIN chain : chain[i] # None /\ Strip(Get(chain[i])) # <<>>}
            first == CHOOSE i \in full : \A j \in full : i <= j
        IN /\ x_body = IF full = {} THEN None ELSE Some(Strip(Get(chain[first])))
           /\ x_body # Some(<<>>)

----------------------------------------------------------------------------
(* Claims about feed parsing (SpecParse) *)

\* C25: tolerant parsing.  fetch_googlenews_entries returns a list whatever
\* blocks the feed holds: the blocks lacking a location, a title or a
\* publication date are skipped and every well-formed block of the target
\* date is returned, in document order; a Dhaka Tribune sitemap that does not
\* parse gives the empty list.
C25_MalformedBlocksSkipped ==
    /\ x_fn = "fetch_googlenews_entries" =>
        /\ x_body # None
        /\ UrlsOf(Get(x_body)) =
              LocsOf(SelectSeq(Get(x_page).feed,
                               LAMBDA b : /\ WellFormed(b)
                                          /\ DailyStarDateMatch(Get(b.pub), Get(x_page).prefix)))
    /\ (x_fn = "get_latest_article_urls" /\ ~Get(x_page).parses) => x_body = Some(<<>>)

\* a feed of a block without title followed by a well-formed block of the
\* target date: the second is returned
C25_Witness ==
    /\ x_fn = "fetch_googlenews_entries"
    /\ Len(Get(x_page).feed) = 2
    /\ Get(x_page).feed[1].title = None
    /\ WellFormed(Get(x_page).feed[2])
    /\ UrlsOf(Get(x_body)) = LocsOf(<<Get(x_page).feed[2]>>)

----------------------------------------------------------------------------
(* Claims about the adapters run together (SpecConcurrent, Spec) *)

\* C26: no shared mutable state.  In every interleaving of the four
\* adapters, the file of a source for today is absent until that source's
\* own adapter has saved, and from then on holds what that adapter collected
\* (or stays absent if its save did not write); the files of other days are
\* untouched.  No adapter's step changes the file of another source, so every
\* interleaving ends with the files of the sequential run.
C26_EachAdapterOwnsItsFile ==
    \A src \in Sources :
        /\ \A d \in Days \ {today} : news[src][d] = None
        /\ news[src][today] =
              IF p_pc[src] = "done" /\ p_run[src].saves /\ p_run[src].fs = "ok"
              THEN Some(Render(p_run[src].writer, p_run[src].headlines, today,
                               p_run[src].time))
              ELSE None

\* the four adapters have finished, Dhaka Tribune saved before Jugantor, and
\* all four files are written
C26_Witness ==
    /\ \A src \in Sources : p_pc[src] = "done" /\ news[src][today] # None
    /\ last.src = "jugantor"
    /\ p_run["jugantor"].headlines # <<>>
    /\ p_run["dhaka_tribune"].headlines # <<>>

\* C27: when run_all_scrapers has returned (the four mains ran, none raised)
\* and only files of today are in the folder, the files of all four sources
\* for today exist, so check_todays_news_files returns True.
C27_AllFilesAfterScraping ==
    (/\ t_pc = "load"
     /\ t_ran = ScraperOrder
     /\ last.day = today
     /\ \A s \in Sources : \A d \in Days \ {today} : news[s][d] = None)
        => check_todays_news_files = Sources

----------------------------------------------------------------------------
(* Claims about the caps (SpecFull, SpecLimit) *)

\* sub is a subsequence of seq: its elements occur in seq in the same order
RECURSIVE IsSubsequence(_, _)
IsSubsequence(sub, seq) ==
    IF sub = <<>> THEN TRUE
    ELSE IF seq = <<>> THEN FALSE
    ELSE IF Head(sub) = Head(seq) THEN IsSubsequence(Tail(sub), Tail(seq))
    ELSE IsSubsequence(sub, Tail(seq))

\* C28: at every point of the loop and at the return, the list built by
\* scrape_daily_star / scrape_jugantor has at most max_articles records, and
\* its URLs are, in feed order, a subsequence of the URLs of the first
\* max_articles date-matching entries of the feed.
C28_CapBeforeFetching ==
    s_pc \in {"loop", "done"} =>
        /\ Len(s_result) <= s_call.max_articles
        /\ IsSubsequence(ScrapedUrls(s_result),
                         [k \in 1..Min(Len(s_call.matching), s_call.max_articles) |->
                             s_call.matching[k].url])

\* scrape_daily_star: the feed has more matching entries than max_articles,
\* the article of the first entry failed, and the call returned without any
\* record and without a second request
C28_Witness ==
    /\ s_pc = "done"
    /\ Len(s_call.matching) > s_call.max_articles
    /\ s_call.max_articles >= 1
    /\ s_result = <<>>
    /\ s_events = <<"fetch">>

\* C29: for every integer limit, get_latest_article_urls(limit) returns at
\* most limit URLs, in sitemap order, none of them under a disallowed path.
C29_AtMostLimitUrls ==
    x_fn = "get_latest_article_urls(limit)" =>
        /\ Len(Get(x_body)) <= Get(x_page).limit
        /\ IsSubsequence(Get(x_body), Get(x_page).locs)
        /\ \A k \in DOMAIN Get(x_body) : ~Disallowed(Get(x_body)[k])

----------------------------------------------------------------------------
(* Claims about the headline list of Prothom Alo (SpecKey) *)

\* C30: when the sitemap lists each URL once, the headline list returned by
\* get_prothomalo_headlines contains each URL at most once.
C30_UrlIsKey ==
    x_fn = "get_prothomalo_headlines" =>
        \A i, j \in DOMAIN Get(x_body) :
            i # j => Get(x_body)[i].url # Get(x_body)[j].url

====
